---- MODULE Spec2Model ----
(***************************************************************************)
(* A model of openpgp/packet/public_key.go (public key packets: parsing,   *)
(* serialization, fingerprint / key id derivation, signature verification) *)
(* and of the SHA-1 digest it registers.                                   *)
(*                                                                         *)
(* Representation of machine integers.  TLC's integers are 32 bits wide,   *)
(* so wider values are kept as big-endian limbs:                           *)
(*   - a byte is an integer in 0..255, a []byte a sequence of bytes;       *)
(*   - a time.Time (whole seconds, int64) is four 16-bit limbs,            *)
(*     most significant first, in two's complement;                        *)
(*   - a uint64 (KeyId) is four 16-bit limbs, most significant first;      *)
(*   - the SHA-1 state h [5]uint32 is kept as its 20 big-endian bytes.     *)
(***************************************************************************)
EXTENDS Integers, Sequences, FiniteSets, TLC

VARIABLES
    pk,       \* the PublicKey object the key operations act on
    prev,     \* pk as it was when the last key operation was called
    lastOp,   \* name of the last operation called
    err,      \* what the last key operation returned ("nil" on success)
    wire,     \* bytes written by the last Serialize call
    sent,     \* the key that Serialize call was made on
    input,    \* the packet body handed to the last parse call
    str,      \* <<KeyIdString(), KeyIdShortString()>> of the last call
    vkey,     \* verification: the key the call was made on
    vsigned,  \* verification: the signed (sub)key
    vop,      \* verification: name of the last verification call
    vsig,     \* verification: the signature handed to the verifier
    vsigOut,  \* verification: that signature as the call left it
    vhash0,   \* verification: the hash context handed to VerifySignature
    vhash,    \* verification: the hash context after the outer check
    vhash2,   \* verification: the hash context of the cross-signature check
    verr,     \* verification: the outcome returned
    vtrace,   \* verification: the checks reached, in order
    vnow,     \* KeyExpired: the currentTime argument
    vexpired, \* KeyExpired: the value returned
    dig,      \* sha1: the digest object
    digPrev,  \* sha1: the digest as it was when the last call was made
    digOp,    \* sha1: name of the last call on the digest
    digSum,   \* sha1: what the last Sum returned
    digNx,    \* sha1: nx of the copy checkSum worked on, at its nx check
    digData,  \* sha1: every byte written since the last Reset
    digWrites \* sha1: number of Write calls made

vars == <<pk, prev, lastOp, err, wire, sent, input, str,
          vop, vkey, vsigned, vsig, vsigOut, vhash0, vhash, vhash2, verr, vtrace,
          vnow, vexpired,
          dig, digPrev, digOp, digSum, digNx, digData, digWrites>>

keyVars == <<pk, prev, lastOp, err, wire, sent, input, str>>
verVars == <<vop, vkey, vsigned, vsig, vsigOut, vhash0, vhash, vhash2, verr, vtrace,
            vnow, vexpired>>
shaVars == <<dig, digPrev, digOp, digSum, digNx, digData, digWrites>>

(***************************************************************************)
(* Bytes and sequences                                                     *)
(***************************************************************************)

\* Go's byte(x) of a non-negative int.
ToByte(x) == x % 256

\* s[from:to] with Go's 0-based, half-open indices.
Slice(s, from, to) == [i \in 1..(to - from) |-> s[from + i]]

\* s[from:]
SliceFrom(s, from) == Slice(s, from, Len(s))

Zeros(n) == [i \in 1..n |-> 0]

Min(a, b) == IF a < b THEN a ELSE b

\* byte(n >> 8), byte(n)
BE16(n) == <<ToByte(n \div 256), ToByte(n)>>

\* byte(n >> 24), byte(n >> 16), byte(n >> 8), byte(n)
BE32(n) == <<ToByte(n \div 16777216), ToByte(n \div 65536), ToByte(n \div 256), ToByte(n)>>

\* math/bits.Len8
BitLen8(b) ==
    IF b >= 128 THEN 8 ELSE IF b >= 64 THEN 7 ELSE IF b >= 32 THEN 6
    ELSE IF b >= 16 THEN 5 ELSE IF b >= 8 THEN 4 ELSE IF b >= 4 THEN 3
    ELSE IF b >= 2 THEN 2 ELSE IF b >= 1 THEN 1 ELSE 0

RECURSIVE StripLeadingZeros(_)
\* big.Int.SetBytes followed by Bytes: the minimal big-endian form.
StripLeadingZeros(s) ==
    IF Len(s) > 0 /\ s[1] = 0 THEN StripLeadingZeros(Tail(s)) ELSE s

RECURSIVE Concat(_)
\* The concatenation of a sequence of byte sequences.
Concat(ss) == IF Len(ss) = 0 THEN <<>> ELSE Head(ss) \o Concat(Tail(ss))

RECURSIVE SumLen(_)
SumLen(ss) == IF Len(ss) = 0 THEN 0 ELSE Len(Head(ss)) + SumLen(Tail(ss))

(***************************************************************************)
(* encoding.Field: MPI and OID codecs                                      *)
(***************************************************************************)

\* A nil encoding.Field.
NilField == [kind |-> "nil", bitLength |-> 0, bytes |-> <<>>]

\* new(encoding.MPI)
EmptyMPI == [kind |-> "mpi", bitLength |-> 0, bytes |-> <<>>]

\* new(encoding.OID)
EmptyOID == [kind |-> "oid", bitLength |-> 0, bytes |-> <<>>]

\* encoding.NewMPI(bytes): minimal big-endian bytes and their bit length.
NewMPI(bytes) ==
    LET b == StripLeadingZeros(bytes)
    IN [kind |-> "mpi",
        bitLength |-> IF Len(b) = 0 THEN 0 ELSE 8 * (Len(b) - 1) + BitLen8(b[1]),
        bytes |-> b]

\* new(encoding.MPI).SetBig(v), v given by its big-endian bytes.
SetBig(v) == NewMPI(v)

\* encoding.NewOID(bytes)
NewOID(bytes) == [kind |-> "oid", bitLength |-> 0, bytes |-> bytes]

\* Field.Bytes(): the value without its length prefix.
FieldBytes(f) == f.bytes

\* Field.EncodedBytes(): MPI = 2-byte bit length then the bytes;
\* OID = 1-byte length then the bytes.
EncodedBytes(f) ==
    IF f.kind = "mpi" THEN BE16(f.bitLength) \o f.bytes
    ELSE <<ToByte(Len(f.bytes))>> \o f.bytes

\* Field.EncodedLength()
EncodedLength(f) ==
    IF f.kind = "mpi" THEN 2 + Len(f.bytes) ELSE 1 + Len(f.bytes)

\* MPI.ReadFrom(r): [ok, field, rest].  A short read fails; the field is
\* left with what was read, zero-filled to the declared length.
MPIReadFrom(r) ==
    IF Len(r) < 2 THEN [ok |-> FALSE, field |-> EmptyMPI, rest |-> <<>>]
    ELSE LET bits == r[1] * 256 + r[2]
             n == (bits + 7) \div 8
             body == SliceFrom(r, 2)
         IN IF Len(body) < n
            THEN [ok |-> FALSE,
                  field |-> [kind |-> "mpi", bitLength |-> bits,
                             bytes |-> body \o Zeros(n - Len(body))],
                  rest |-> <<>>]
            ELSE [ok |-> TRUE,
                  field |-> [kind |-> "mpi", bitLength |-> bits,
                             bytes |-> Slice(body, 0, n)],
                  rest |-> SliceFrom(body, n)]

\* OID.ReadFrom(r): [ok, field, rest].
OIDReadFrom(r) ==
    IF Len(r) < 1 THEN [ok |-> FALSE, field |-> EmptyOID, rest |-> <<>>]
    ELSE LET n == r[1]
             body == SliceFrom(r, 1)
         IN IF Len(body) < n
            THEN [ok |-> FALSE,
                  field |-> [kind |-> "oid", bitLength |-> 0,
                             bytes |-> body \o Zeros(n - Len(body))],
                  rest |-> <<>>]
            ELSE [ok |-> TRUE,
                  field |-> [kind |-> "oid", bitLength |-> 0,
                             bytes |-> Slice(body, 0, n)],
                  rest |-> SliceFrom(body, n)]

(***************************************************************************)
(* SHA-1 digest (package sha1) and the other registered hashes             *)
(***************************************************************************)

\* The size of a SHA-1 checksum in bytes.
Size == 20

chunk == 64

\* init0..init4 as the big-endian bytes of h[0..4].
InitH == <<103, 69, 35, 1,  239, 205, 171, 137,  152, 186, 220, 254,
           16, 50, 84, 118,  195, 210, 225, 240>>

RECURSIVE MixRange(_, _, _)
\* A stand-in for the rounds of a compression function: folds the bytes
\* p[lo..hi] into a 16-bit value, as a balanced tree.
MixRange(p, lo, hi) ==
    IF lo > hi THEN 0
    ELSE IF lo = hi THEN p[lo] + 1
    ELSE LET mid == (lo + hi) \div 2
         IN (MixRange(p, lo, mid) * 31 + MixRange(p, mid + 1, hi) * 17 + 7) % 65521

\* Folds the bytes of p into the 16-bit accumulator s.
Mix(s, p) == (s * 33 + MixRange(p, 1, Len(p)) + Len(p)) % 65521

RECURSIVE block(_, _)
\* block(d, p): compresses the whole 64-byte blocks of p into h.
block(h, p) ==
    IF Len(p) < chunk THEN h
    ELSE LET s == Mix(Mix(0, h), Slice(p, 0, chunk))
             h2 == [k \in 1..Len(h) |-> (h[k] + s * k + (s \div 256) + k) % 256]
         IN block(h2, SliceFrom(p, chunk))

\* digest.Reset (and New)
Reset == [h |-> InitH, x |-> Zeros(chunk), nx |-> 0, len |-> 0]

\* A variant that keeps nx at the end of the buffer after the buffer was
\* filled and compressed.
Write_NoFlush(d, p) ==
    LET n1 == IF d.nx > 0 THEN Min(chunk - d.nx, Len(p)) ELSE 0
        x1 == [i \in 1..chunk |->
                 IF i > d.nx /\ i <= d.nx + n1 THEN p[i - d.nx] ELSE d.x[i]]
        full == d.nx > 0 /\ d.nx + n1 = chunk
        h1 == IF full THEN block(d.h, x1) ELSE d.h
        nx1 == d.nx + n1
        p1 == SliceFrom(p, n1)
        n2 == IF Len(p1) >= chunk THEN Len(p1) - (Len(p1) % chunk) ELSE 0
        h2 == IF n2 > 0 THEN block(h1, Slice(p1, 0, n2)) ELSE h1
        p2 == SliceFrom(p1, n2)
        x2 == [i \in 1..chunk |-> IF i <= Len(p2) THEN p2[i] ELSE x1[i]]
        nx2 == IF Len(p2) > 0 THEN Len(p2) ELSE nx1
    IN [h |-> h2, x |-> x2, nx |-> nx2, len |-> d.len + Len(p)]

\* digest.Write(p)
Write(d, p) ==
    LET \* if d.nx > 0 { n := copy(d.x[d.nx:], p); ... }
        n1 == IF d.nx > 0 THEN Min(chunk - d.nx, Len(p)) ELSE 0
        x1 == [i \in 1..chunk |->
                 IF i > d.nx /\ i <= d.nx + n1 THEN p[i - d.nx] ELSE d.x[i]]
        full == d.nx > 0 /\ d.nx + n1 = chunk
        h1 == IF full THEN block(d.h, x1) ELSE d.h
        nx1 == IF full THEN 0 ELSE d.nx + n1
        p1 == SliceFrom(p, n1)
        \* if len(p) >= chunk { n := len(p) &^ (chunk - 1); block(d, p[:n]) }
        n2 == IF Len(p1) >= chunk THEN Len(p1) - (Len(p1) % chunk) ELSE 0
        h2 == IF n2 > 0 THEN block(h1, Slice(p1, 0, n2)) ELSE h1
        p2 == SliceFrom(p1, n2)
        \* if len(p) > 0 { d.nx = copy(d.x[:], p) }
        x2 == [i \in 1..chunk |-> IF i <= Len(p2) THEN p2[i] ELSE x1[i]]
        nx2 == IF Len(p2) > 0 THEN Len(p2) ELSE nx1
    IN [h |-> h2, x |-> x2, nx |-> nx2, len |-> d.len + Len(p)]

\* The digest after checkSum's padding and length writes.
checkSumState(d) ==
    LET len == d.len
        tmp == <<128>> \o Zeros(chunk - 1)
        d1 == IF len % 64 < 56
              THEN Write(d, Slice(tmp, 0, 56 - (len % 64)))
              ELSE Write(d, Slice(tmp, 0, 64 + 56 - (len % 64)))
        \* len <<= 3; binary.BigEndian.PutUint64(tmp[:], len)
        bits == <<0, 0, 0, 0>> \o BE32(len * 8)
    IN Write(d1, bits)

\* digest.Reset on a digest in use: the buffer x is left as it is.
ResetDigest(d) == [d EXCEPT !.h = InitH, !.nx = 0, !.len = 0]

\* digest.Sum(nil): checkSum works on a copy d0 of the receiver. [d, hash,
\* nx]: the receiver afterwards, the bytes returned, and d0.nx where
\* checkSum tests it (it panics unless that is 0).
Sum(d) ==
    LET d0 == checkSumState(d)
    IN [d |-> d, hash |-> d0.h, nx |-> d0.nx]

\* digest.checkSum(): the 20 digest bytes.
checkSum(d) == checkSumState(d).h

\* sha1.Sum(data)
Sha1Sum(data) == checkSum(Write(Reset, data))

\* sha256.Sum256(data): 32 bytes.
Sha256Sum(data) ==
    LET s == Mix(Mix(27183, data), <<Len(data) % 256>>)
    IN [k \in 1..32 |-> (s * (k + 2) + (s \div 256) + k * k) % 256]

\* sha512: 64 bytes.
Sha512Sum(data) ==
    LET s == Mix(Mix(31415, data), <<Len(data) % 256>>)
    IN [k \in 1..64 |-> (s * (k + 5) + (s \div 128) + 3 * k) % 256]

(***************************************************************************)
(* Public key algorithms and the curve registry                            *)
(***************************************************************************)

PubKeyAlgoRSA == 1
PubKeyAlgoRSAEncryptOnly == 2
PubKeyAlgoRSASignOnly == 3
PubKeyAlgoElGamal == 16
PubKeyAlgoDSA == 17
PubKeyAlgoECDH == 18
PubKeyAlgoECDSA == 19
PubKeyAlgoEdDSA == 22

RSAFamily == {PubKeyAlgoRSA, PubKeyAlgoRSAEncryptOnly, PubKeyAlgoRSASignOnly}

SupportedAlgos == RSAFamily \cup {PubKeyAlgoElGamal, PubKeyAlgoDSA, PubKeyAlgoECDH,
                                  PubKeyAlgoECDSA, PubKeyAlgoEdDSA}

packetTypePublicKey == 6
packetTypePublicSubkey == 14

\* ed25519.PublicKeySize
PublicKeySize == 32

OidP256 == <<42, 134, 72, 206, 61, 3, 1, 7>>
OidCurve25519 == <<43, 6, 1, 4, 1, 151, 85, 1, 5, 1>>
OidEd25519 == <<43, 6, 1, 4, 1, 218, 71, 15, 1>>

\* ecc.Curves: the registry's entries.
Curves == {
    [Name |-> "P256", Oid |-> OidP256, CurveType |-> "NISTCurve", SigAlgorithm |-> "ECDSA"],
    [Name |-> "Curve25519", Oid |-> OidCurve25519, CurveType |-> "Curve25519", SigAlgorithm |-> "ECDSA"],
    [Name |-> "Ed25519", Oid |-> OidEd25519, CurveType |-> "NISTCurve", SigAlgorithm |-> "EdDSA"] }

NoCurve == [Name |-> "nil", Oid |-> <<>>, CurveType |-> "nil", SigAlgorithm |-> "nil"]

\* ecc.FindByOid(oid): the entry, or NoCurve for nil.
FindByOid(oid) ==
    IF \E c \in Curves : c.Oid = FieldBytes(oid)
    THEN CHOOSE c \in Curves : c.Oid = FieldBytes(oid)
    ELSE NoCurve

\* ecc.FindByName(name)
FindByName(name) == CHOOSE c \in Curves : c.Name = name

\* The toy curve behind the "P256" handle: y is a function of x.
CurveY(x) == (x * x + 7) % 256

\* elliptic.Marshal(curve, x, y): the uncompressed point 0x04 || X || Y.
Marshal(x) == <<4, x, CurveY(x)>>

\* elliptic.Unmarshal(curve, data) returns a point (x # nil) exactly for an
\* uncompressed encoding of a point on the curve.
UnmarshalOk(data) == Len(data) = 3 /\ data[1] = 4 /\ data[3] = CurveY(data[2])

\* algorithm.HashById / algorithm.CipherById: the ids the KDF lookup knows.
KdfHashIds == {8, 10}
KdfCipherIds == {7, 9}

(***************************************************************************)
(* PublicKey                                                               *)
(***************************************************************************)

\* The zero time.Time (January 1, year 1): Unix() = -62135596800.
ZeroTime == <<65535, 65521, 34926, 2304>>

NoNative == [kind |-> "nil", parts |-> <<>>]

\* new(PublicKey): every field at its zero value.
NewPublicKey ==
    [Version |-> 0, CreationTime |-> ZeroTime, PubKeyAlgo |-> 0,
     PublicKey |-> NoNative, Fingerprint |-> <<>>, KeyId |-> <<0, 0, 0, 0>>,
     IsSubkey |-> FALSE,
     n |-> NilField, e |-> NilField, p |-> NilField, q |-> NilField,
     g |-> NilField, y |-> NilField, oid |-> NilField, kdf |-> NilField]

\* uint32(t.Unix()) as its four big-endian bytes.
UnixBytes(t) == BE16(t[3]) \o BE16(t[4])

\* time.Unix(int64(uint32(b1)<<24 | uint32(b2)<<16 | uint32(b3)<<8 | uint32(b4)), 0)
TimeUnix(b1, b2, b3, b4) == <<0, 0, b1 * 256 + b2, b3 * 256 + b4>>

\* binary.BigEndian.Uint64(b)
Uint64(b) == <<b[1] * 256 + b[2], b[3] * 256 + b[4], b[5] * 256 + b[6], b[7] * 256 + b[8]>>

\* A variant that leaves the KDF field of an ECDH key out of the count.
algorithmSpecificByteCount_NoKdf(k) ==
    CASE k.PubKeyAlgo \in RSAFamily ->
           EncodedLength(k.n) + EncodedLength(k.e)
      [] k.PubKeyAlgo = PubKeyAlgoDSA ->
           EncodedLength(k.p) + EncodedLength(k.q) + EncodedLength(k.g) + EncodedLength(k.y)
      [] k.PubKeyAlgo = PubKeyAlgoElGamal ->
           EncodedLength(k.p) + EncodedLength(k.g) + EncodedLength(k.y)
      [] OTHER ->
           EncodedLength(k.oid) + EncodedLength(k.p)

algorithmSpecificByteCount(k) ==
    CASE k.PubKeyAlgo \in RSAFamily ->
           EncodedLength(k.n) + EncodedLength(k.e)
      [] k.PubKeyAlgo = PubKeyAlgoDSA ->
           EncodedLength(k.p) + EncodedLength(k.q) + EncodedLength(k.g) + EncodedLength(k.y)
      [] k.PubKeyAlgo = PubKeyAlgoElGamal ->
           EncodedLength(k.p) + EncodedLength(k.g) + EncodedLength(k.y)
      [] k.PubKeyAlgo = PubKeyAlgoECDSA ->
           EncodedLength(k.oid) + EncodedLength(k.p)
      [] k.PubKeyAlgo = PubKeyAlgoECDH ->
           EncodedLength(k.oid) + EncodedLength(k.p) + EncodedLength(k.kdf)
      [] k.PubKeyAlgo = PubKeyAlgoEdDSA ->
           EncodedLength(k.oid) + EncodedLength(k.p)
      [] OTHER -> 0  \* panic("unknown public key algorithm"): no usable key has one

\* SerializeSignaturePrefix(w): the bytes written to w.
SerializeSignaturePrefix(k) ==
    LET pLength == algorithmSpecificByteCount(k)
    IN IF k.Version = 5
       THEN <<154>> \o BE32(pLength + 10)
       ELSE <<153>> \o BE16(pLength + 6)

\* serializeWithoutHeaders(w): the bytes written to w.
serializeWithoutHeaders(k) ==
    <<ToByte(k.Version)>> \o UnixBytes(k.CreationTime) \o <<ToByte(k.PubKeyAlgo)>>
    \o (IF k.Version = 5 THEN BE32(algorithmSpecificByteCount(k)) ELSE <<>>)
    \o (CASE k.PubKeyAlgo \in RSAFamily ->
               EncodedBytes(k.n) \o EncodedBytes(k.e)
          [] k.PubKeyAlgo = PubKeyAlgoDSA ->
               EncodedBytes(k.p) \o EncodedBytes(k.q) \o EncodedBytes(k.g) \o EncodedBytes(k.y)
          [] k.PubKeyAlgo = PubKeyAlgoElGamal ->
               EncodedBytes(k.p) \o EncodedBytes(k.g) \o EncodedBytes(k.y)
          [] k.PubKeyAlgo = PubKeyAlgoECDSA ->
               EncodedBytes(k.oid) \o EncodedBytes(k.p)
          [] k.PubKeyAlgo = PubKeyAlgoECDH ->
               EncodedBytes(k.oid) \o EncodedBytes(k.p) \o EncodedBytes(k.kdf)
          [] k.PubKeyAlgo = PubKeyAlgoEdDSA ->
               EncodedBytes(k.oid) \o EncodedBytes(k.p)
          [] OTHER -> <<>>)  \* InvalidArgumentError("bad public-key algorithm")

\* SerializeForHash(w): the prefix, then the body.
SerializeForHash(k) == SerializeSignaturePrefix(k) \o serializeWithoutHeaders(k)

\* serializeHeader(w, ptype, length): a new-format packet header.
serializeHeader(ptype, length) ==
    IF length < 192 THEN <<192 + ptype, ToByte(length)>>
    ELSE IF length < 8384
         THEN <<192 + ptype, 192 + ToByte((length - 192) \div 256), ToByte(length - 192)>>
         ELSE <<192 + ptype, 255>> \o BE32(length)

\* Serialize(w): the packet header, then the body.
\* A variant whose packet length leaves out the 4-byte count of version 5.
Serialize_NoV5Count(k) ==
    LET length == 6 + algorithmSpecificByteCount(k)
        packetType == IF k.IsSubkey THEN packetTypePublicSubkey ELSE packetTypePublicKey
    IN serializeHeader(packetType, length) \o serializeWithoutHeaders(k)

Serialize(k) ==
    LET length == 6 + algorithmSpecificByteCount(k) + (IF k.Version = 5 THEN 4 ELSE 0)
        packetType == IF k.IsSubkey THEN packetTypePublicSubkey ELSE packetTypePublicKey
    IN serializeHeader(packetType, length) \o serializeWithoutHeaders(k)

\* The packet reader's framing: the contents a new-format header delimits,
\* which is what parse is given.
PacketBody(w) ==
    IF Len(w) < 2 THEN <<>>
    ELSE IF w[2] < 192 THEN Slice(w, 2, Min(Len(w), 2 + w[2]))
    ELSE IF w[2] < 224 /\ Len(w) >= 3
         THEN Slice(w, 3, Min(Len(w), 3 + (w[2] - 192) * 256 + w[3] + 192))
         ELSE <<>>

\* setFingerprintAndKeyId()
\* A variant that takes the KeyId from the leading 8 bytes at every version.
setFingerprintAndKeyId_LeadingBytes(k) ==
    LET fp == IF k.Version = 5
              THEN Slice(Sha256Sum(SerializeForHash(k)), 0, 32)
              ELSE Slice(Sha1Sum(SerializeForHash(k)), 0, 20)
    IN [k EXCEPT !.Fingerprint = fp, !.KeyId = Uint64(Slice(fp, 0, 8))]

setFingerprintAndKeyId(k) ==
    IF k.Version = 5
    THEN LET fp == Slice(Sha256Sum(SerializeForHash(k)), 0, 32)
         IN [k EXCEPT !.Fingerprint = fp, !.KeyId = Uint64(Slice(fp, 0, 8))]
    ELSE LET fp == Slice(Sha1Sum(SerializeForHash(k)), 0, 20)
         IN [k EXCEPT !.Fingerprint = fp, !.KeyId = Uint64(Slice(fp, 12, 20))]

\* Variants of UpgradeToV5: one that only sets the version, one that
\* recomputes the fingerprint and keeps the old KeyId.
UpgradeToV5_VersionOnly(k) == [k EXCEPT !.Version = 5]

UpgradeToV5_KeepsKeyId(k) ==
    [setFingerprintAndKeyId([k EXCEPT !.Version = 5]) EXCEPT !.KeyId = k.KeyId]

\* UpgradeToV5()
UpgradeToV5(k) == setFingerprintAndKeyId([k EXCEPT !.Version = 5])

HexDigits == <<"0", "1", "2", "3", "4", "5", "6", "7", "8", "9", "A", "B", "C", "D", "E", "F">>

RECURSIVE HexUpper(_)
\* fmt.Sprintf("%X", b) of a byte slice: two capital hex digits per byte.
HexUpper(b) ==
    IF Len(b) = 0 THEN <<>>
    ELSE <<HexDigits[(Head(b) \div 16) + 1], HexDigits[(Head(b) % 16) + 1]>> \o HexUpper(Tail(b))

\* KeyIdString()
KeyIdString(k) == HexUpper(Slice(k.Fingerprint, 12, 20))

\* KeyIdShortString()
KeyIdShortString(k) == HexUpper(Slice(k.Fingerprint, 16, 20))

\* CanSign()
CanSign(k) ==
    /\ k.PubKeyAlgo # PubKeyAlgoRSAEncryptOnly
    /\ k.PubKeyAlgo # PubKeyAlgoElGamal
    /\ k.PubKeyAlgo # PubKeyAlgoECDH

\* time.Time: seconds as a signed 64-bit value in four 16-bit limbs, and
\* nanoseconds within the second. t.After(u)
After(t, u) ==
    LET a == <<(u.sec[1] + 32768) % 65536, u.sec[2], u.sec[3], u.sec[4]>>
        b == <<(t.sec[1] + 32768) % 65536, t.sec[2], t.sec[3], t.sec[4]>>
    IN \/ \E i \in 1..4 : a[i] < b[i] /\ \A j \in 1..(i - 1) : a[j] = b[j]
       \/ a = b /\ u.nsec < t.nsec

\* t.Add(time.Duration(secs) * time.Second), secs a uint32 in two limbs.
Add(t, secs) ==
    LET s4 == t.sec[4] + secs[2]
        s3 == t.sec[3] + secs[1] + s4 \div 65536
        s2 == t.sec[2] + s3 \div 65536
        s1 == t.sec[1] + s2 \div 65536
    IN [sec |-> <<s1 % 65536, s2 % 65536, s3 % 65536, s4 % 65536>>, nsec |-> t.nsec]

\* A variant in which a key is expired from the instant of its expiry on.
KeyExpired_AtExpiry(k, sig, currentTime) ==
    LET created == [sec |-> k.CreationTime, nsec |-> 0]
    IN IF After(created, currentTime) THEN TRUE
       ELSE IF sig.KeyLifetimeSecs = <<>> THEN FALSE
       ELSE ~After(Add(created, sig.KeyLifetimeSecs), currentTime)

\* KeyExpired(sig, currentTime); a nil KeyLifetimeSecs is <<>>.
KeyExpired(k, sig, currentTime) ==
    LET created == [sec |-> k.CreationTime, nsec |-> 0]
    IN IF After(created, currentTime) THEN TRUE
       ELSE IF sig.KeyLifetimeSecs = <<>> THEN FALSE
       ELSE After(currentTime, Add(created, sig.KeyLifetimeSecs))

(***************************************************************************)
(* Constructors                                                            *)
(***************************************************************************)

RECURSIVE IntBytes(_)
\* big.NewInt(n).Bytes() for n >= 0.
IntBytes(n) == IF n = 0 THEN <<>> ELSE IntBytes(n \div 256) \o <<n % 256>>

\* A PublicKey literal at version 4 with the given fields set.
KeyV4(creationTime, algo, native) ==
    [NewPublicKey EXCEPT !.Version = 4, !.CreationTime = creationTime,
                         !.PubKeyAlgo = algo, !.PublicKey = native]

\* NewRSAPublicKey(creationTime, pub): pub.N as big-endian bytes, pub.E an int.
NewRSAPublicKey(creationTime, N, E) ==
    setFingerprintAndKeyId(
        [KeyV4(creationTime, PubKeyAlgoRSA, [kind |-> "rsa", parts |-> <<N, <<E>>>>])
            EXCEPT !.n = SetBig(N), !.e = SetBig(IntBytes(E))])

\* NewDSAPublicKey(creationTime, pub)
NewDSAPublicKey(creationTime, P, Q, G, Y) ==
    setFingerprintAndKeyId(
        [KeyV4(creationTime, PubKeyAlgoDSA, [kind |-> "dsa", parts |-> <<P, Q, G, Y>>])
            EXCEPT !.p = SetBig(P), !.q = SetBig(Q), !.g = SetBig(G), !.y = SetBig(Y)])

\* NewElGamalPublicKey(creationTime, pub)
NewElGamalPublicKey(creationTime, P, G, Y) ==
    setFingerprintAndKeyId(
        [KeyV4(creationTime, PubKeyAlgoElGamal, [kind |-> "elgamal", parts |-> <<P, G, Y>>])
            EXCEPT !.p = SetBig(P), !.g = SetBig(G), !.y = SetBig(Y)])

\* NewECDSAPublicKey(creationTime, pub): pub on the P256 handle, given by X.
NewECDSAPublicKey(creationTime, X) ==
    setFingerprintAndKeyId(
        [KeyV4(creationTime, PubKeyAlgoECDSA, [kind |-> "ecdsa", parts |-> <<Marshal(X)>>])
            EXCEPT !.p = NewMPI(Marshal(X)), !.oid = NewOID(OidP256)])

\* NewECDHPublicKey(creationTime, pub): curve25519 says whether
\* pub.CurveType == ecc.Curve25519, X is pub.X (a coordinate byte on the
\* P256 handle, big-endian bytes on Curve25519).
NewECDHPublicKey(creationTime, curve25519, X, hashId, cipherId) ==
    LET kdf == NewOID(<<1, hashId, cipherId>>)
        point == IF curve25519 THEN X ELSE Marshal(X)
        curveInfo == IF curve25519 THEN FindByName("Curve25519") ELSE FindByName("P256")
        native == [kind |-> "ecdh",
                   parts |-> <<StripLeadingZeros(point), <<hashId, cipherId>>>>]
    IN setFingerprintAndKeyId(
        [KeyV4(creationTime, PubKeyAlgoECDH, native)
            EXCEPT !.p = NewMPI(point), !.kdf = kdf, !.oid = NewOID(curveInfo.Oid)])

\* NewEdDSAPublicKey(creationTime, pub)
NewEdDSAPublicKey(creationTime, pub) ==
    setFingerprintAndKeyId(
        [KeyV4(creationTime, PubKeyAlgoEdDSA, [kind |-> "eddsa", parts |-> <<pub>>])
            EXCEPT !.oid = NewOID(FindByName("Ed25519").Oid),
                   !.p = NewMPI(<<64>> \o pub)])

(***************************************************************************)
(* parse                                                                   *)
(***************************************************************************)

RECURSIVE BytesToInt(_, _)
\* for i := range b { E <<= 8; E |= int(b[i]) }
BytesToInt(acc, b) ==
    IF Len(b) = 0 THEN acc ELSE BytesToInt(acc * 256 + Head(b), Tail(b))

\* new(big.Int).SetBytes(b), as the integer's big-endian bytes.
BigFromBytes(b) == StripLeadingZeros(b)

\* parseRSA(r): [pk, err]
\* Variants of parseRSA: one that rejects exponents of 3 bytes, one that
\* stores a native key before it checks the exponent.
parseRSA_TwoBytes(k, r) ==
    LET rn == MPIReadFrom(r)
        k1 == [k EXCEPT !.n = rn.field]
        re == MPIReadFrom(rn.rest)
        k2 == [k1 EXCEPT !.e = re.field]
    IN IF ~rn.ok THEN [pk |-> k1, err |-> "UnexpectedEOF"]
       ELSE IF ~re.ok THEN [pk |-> k2, err |-> "UnexpectedEOF"]
       ELSE IF Len(FieldBytes(k2.e)) > 2 THEN [pk |-> k2, err |-> "Unsupported"]
       ELSE [pk |-> [k2 EXCEPT !.PublicKey =
                        [kind |-> "rsa",
                         parts |-> <<BigFromBytes(FieldBytes(k2.n)),
                                     <<BytesToInt(0, FieldBytes(k2.e))>>>>]],
             err |-> "nil"]

parseRSA_KeyBeforeCheck(k, r) ==
    LET rn == MPIReadFrom(r)
        k1 == [k EXCEPT !.n = rn.field]
        re == MPIReadFrom(rn.rest)
        k2 == [k1 EXCEPT !.e = re.field]
        early == [kind |-> "rsa", parts |-> <<BigFromBytes(FieldBytes(k2.n)), <<0>>>>]
    IN IF ~rn.ok THEN [pk |-> k1, err |-> "UnexpectedEOF"]
       ELSE IF ~re.ok THEN [pk |-> k2, err |-> "UnexpectedEOF"]
       ELSE IF Len(FieldBytes(k2.e)) > 3
       THEN [pk |-> [k2 EXCEPT !.PublicKey = early], err |-> "Unsupported"]
       ELSE [pk |-> [k2 EXCEPT !.PublicKey =
                        [kind |-> "rsa",
                         parts |-> <<BigFromBytes(FieldBytes(k2.n)),
                                     <<BytesToInt(0, FieldBytes(k2.e))>>>>]],
             err |-> "nil"]

parseRSA(k, r) ==
    LET rn == MPIReadFrom(r)
        k1 == [k EXCEPT !.n = rn.field]
        re == MPIReadFrom(rn.rest)
        k2 == [k1 EXCEPT !.e = re.field]
    IN IF ~rn.ok THEN [pk |-> k1, err |-> "UnexpectedEOF"]
       ELSE IF ~re.ok THEN [pk |-> k2, err |-> "UnexpectedEOF"]
       ELSE IF Len(FieldBytes(k2.e)) > 3 THEN [pk |-> k2, err |-> "Unsupported"]
       ELSE [pk |-> [k2 EXCEPT !.PublicKey =
                        [kind |-> "rsa",
                         parts |-> <<BigFromBytes(FieldBytes(k2.n)),
                                     <<BytesToInt(0, FieldBytes(k2.e))>>>>]],
             err |-> "nil"]

\* parseDSA(r): [pk, err]
parseDSA(k, r) ==
    LET rp == MPIReadFrom(r)
        k1 == [k EXCEPT !.p = rp.field]
        rq == MPIReadFrom(rp.rest)
        k2 == [k1 EXCEPT !.q = rq.field]
        rg == MPIReadFrom(rq.rest)
        k3 == [k2 EXCEPT !.g = rg.field]
        ry == MPIReadFrom(rg.rest)
        k4 == [k3 EXCEPT !.y = ry.field]
    IN IF ~rp.ok THEN [pk |-> k1, err |-> "UnexpectedEOF"]
       ELSE IF ~rq.ok THEN [pk |-> k2, err |-> "UnexpectedEOF"]
       ELSE IF ~rg.ok THEN [pk |-> k3, err |-> "UnexpectedEOF"]
       ELSE IF ~ry.ok THEN [pk |-> k4, err |-> "UnexpectedEOF"]
       ELSE [pk |-> [k4 EXCEPT !.PublicKey =
                        [kind |-> "dsa",
                         parts |-> <<BigFromBytes(FieldBytes(k4.p)), BigFromBytes(FieldBytes(k4.q)),
                                     BigFromBytes(FieldBytes(k4.g)), BigFromBytes(FieldBytes(k4.y))>>]],
             err |-> "nil"]

\* parseElGamal(r): [pk, err]
parseElGamal(k, r) ==
    LET rp == MPIReadFrom(r)
        k1 == [k EXCEPT !.p = rp.field]
        rg == MPIReadFrom(rp.rest)
        k2 == [k1 EXCEPT !.g = rg.field]
        ry == MPIReadFrom(rg.rest)
        k3 == [k2 EXCEPT !.y = ry.field]
    IN IF ~rp.ok THEN [pk |-> k1, err |-> "UnexpectedEOF"]
       ELSE IF ~rg.ok THEN [pk |-> k2, err |-> "UnexpectedEOF"]
       ELSE IF ~ry.ok THEN [pk |-> k3, err |-> "UnexpectedEOF"]
       ELSE [pk |-> [k3 EXCEPT !.PublicKey =
                        [kind |-> "elgamal",
                         parts |-> <<BigFromBytes(FieldBytes(k3.p)), BigFromBytes(FieldBytes(k3.g)),
                                     BigFromBytes(FieldBytes(k3.y))>>]],
             err |-> "nil"]

\* parseECDSA(r): [pk, err]
parseECDSA(k, r) ==
    LET ro == OIDReadFrom(r)
        k1 == [k EXCEPT !.oid = ro.field]
        rp == MPIReadFrom(ro.rest)
        k2 == [k1 EXCEPT !.p = rp.field]
        curveInfo == FindByOid(k2.oid)
    IN IF ~ro.ok THEN [pk |-> k1, err |-> "UnexpectedEOF"]
       ELSE IF ~rp.ok THEN [pk |-> k2, err |-> "UnexpectedEOF"]
       ELSE IF curveInfo = NoCurve \/ curveInfo.SigAlgorithm # "ECDSA"
            THEN [pk |-> k2, err |-> "Unsupported"]
       ELSE IF ~UnmarshalOk(FieldBytes(k2.p)) THEN [pk |-> k2, err |-> "Unsupported"]
       ELSE [pk |-> [k2 EXCEPT !.PublicKey =
                        [kind |-> "ecdsa", parts |-> <<FieldBytes(k2.p)>>]],
             err |-> "nil"]

\* parseECDH(r): [pk, err]
parseECDH(k, r) ==
    LET ro == OIDReadFrom(r)
        k1 == [k EXCEPT !.oid = ro.field]
        rp == MPIReadFrom(ro.rest)
        k2 == [k1 EXCEPT !.p = rp.field]
        rk == OIDReadFrom(rp.rest)
        k3 == [k2 EXCEPT !.kdf = rk.field]
        curveInfo == FindByOid(k3.oid)
        kdf == FieldBytes(k3.kdf)
        xOk == IF curveInfo.CurveType = "Curve25519" THEN TRUE
               ELSE UnmarshalOk(FieldBytes(k3.p))
    IN IF ~ro.ok THEN [pk |-> k1, err |-> "UnexpectedEOF"]
       ELSE IF ~rp.ok THEN [pk |-> k2, err |-> "UnexpectedEOF"]
       ELSE IF ~rk.ok THEN [pk |-> k3, err |-> "UnexpectedEOF"]
       ELSE IF curveInfo = NoCurve THEN [pk |-> k3, err |-> "Unsupported"]
       ELSE IF ~xOk THEN [pk |-> k3, err |-> "Unsupported"]
       ELSE IF Len(kdf) < 3 THEN [pk |-> k3, err |-> "Unsupported"]
       ELSE IF kdf[1] # 1 THEN [pk |-> k3, err |-> "Unsupported"]
       ELSE IF kdf[2] \notin KdfHashIds THEN [pk |-> k3, err |-> "Unsupported"]
       ELSE IF kdf[3] \notin KdfCipherIds THEN [pk |-> k3, err |-> "Unsupported"]
       ELSE [pk |-> [k3 EXCEPT !.PublicKey =
                        [kind |-> "ecdh",
                         parts |-> <<BigFromBytes(FieldBytes(k3.p)), <<kdf[2], kdf[3]>>>>]],
             err |-> "nil"]

\* parseEdDSA(r): [pk, err]; err = "panic" is the index-out-of-range panic
\* of pk.p.Bytes()[0] on an empty point.
parseEdDSA(k, r) ==
    LET ro == OIDReadFrom(r)
        k1 == [k EXCEPT !.oid = ro.field]
        curveInfo == FindByOid(k1.oid)
        rp == MPIReadFrom(ro.rest)
        k2 == [k1 EXCEPT !.p = rp.field]
        b == FieldBytes(k2.p)
        \* eddsa := make(ed25519.PublicKey, 32); copy(eddsa[:], b[1:])
        eddsa == [i \in 1..PublicKeySize |-> IF i + 1 <= Len(b) THEN b[i + 1] ELSE 0]
    IN IF ~ro.ok THEN [pk |-> k1, err |-> "UnexpectedEOF"]
       ELSE IF curveInfo = NoCurve \/ curveInfo.SigAlgorithm # "EdDSA"
            THEN [pk |-> k1, err |-> "Unsupported"]
       ELSE IF ~rp.ok THEN [pk |-> k2, err |-> "UnexpectedEOF"]
       ELSE IF Len(b) = 0 THEN [pk |-> k2, err |-> "panic"]
       ELSE IF b[1] = 4 THEN [pk |-> k2, err |-> "Unsupported"]
       ELSE IF b[1] = 64
            THEN [pk |-> [k2 EXCEPT !.PublicKey = [kind |-> "eddsa", parts |-> <<eddsa>>]],
                  err |-> "nil"]
       ELSE [pk |-> k2, err |-> "Unsupported"]

\* parse(r) on receiver k: [pk, err], pk being the receiver afterwards.
parse(k, r) ==
    IF Len(r) < 6 THEN [pk |-> k, err |-> "UnexpectedEOF"]
    ELSE IF r[1] # 4 /\ r[1] # 5 THEN [pk |-> k, err |-> "Unsupported"]
    ELSE
      LET k1 == [k EXCEPT !.Version = r[1]]
          r1 == SliceFrom(r, 6)
          r2 == IF k1.Version = 5 THEN SliceFrom(r1, Min(4, Len(r1))) ELSE r1
          k2 == [k1 EXCEPT !.CreationTime = TimeUnix(r[2], r[3], r[4], r[5]),
                           !.PubKeyAlgo = r[6]]
          res == CASE k2.PubKeyAlgo \in RSAFamily -> parseRSA(k2, r2)
                   [] k2.PubKeyAlgo = PubKeyAlgoDSA -> parseDSA(k2, r2)
                   [] k2.PubKeyAlgo = PubKeyAlgoElGamal -> parseElGamal(k2, r2)
                   [] k2.PubKeyAlgo = PubKeyAlgoECDSA -> parseECDSA(k2, r2)
                   [] k2.PubKeyAlgo = PubKeyAlgoECDH -> parseECDH(k2, r2)
                   [] k2.PubKeyAlgo = PubKeyAlgoEdDSA -> parseEdDSA(k2, r2)
                   [] OTHER -> [pk |-> k2, err |-> "Unsupported"]
      IN IF k1.Version = 5 /\ Len(r1) < 4 THEN [pk |-> k1, err |-> "UnexpectedEOF"]
         ELSE IF res.err # "nil" THEN res
         ELSE [pk |-> setFingerprintAndKeyId(res.pk), err |-> "nil"]

(***************************************************************************)
(* Hash contexts and the asymmetric primitives                             *)
(***************************************************************************)

\* crypto.Hash values whose implementation is linked in (Available()).
AvailableHashes == {"SHA1", "SHA256", "SHA512", "SHA224"}

\* A hash.Hash: the algorithm and the bytes written so far.
HashNew(alg) == [alg |-> alg, data |-> <<>>]

\* h.Write(p)
HashWrite(h, p) == [h EXCEPT !.data = h.data \o p]

\* h.Sum(nil)
HashSum(h) ==
    CASE h.alg = "SHA1" -> Sha1Sum(h.data)
      [] h.alg = "SHA256" -> Sha256Sum(h.data)
      [] h.alg = "SHA512" -> Sha512Sum(h.data)
      [] OTHER -> Slice(Sha256Sum(<<28>> \o h.data), 0, 28)

\* A stand-in for the one-way map from a public key to what its private
\* half signs with.
KeyTag(native) == Mix(0, Concat(native.parts))

\* The signature components the holder of the private half produces over
\* digest: one non-zero byte each.
SignR(native, digest) == <<1 + (Mix(KeyTag(native), digest) % 255)>>
SignS(native, digest) == <<1 + (Mix(KeyTag(native) + 1, digest) % 255)>>

\* padToKeySize(pub, b): b left-padded with zeros to the modulus size.
padToKeySize(native, b) ==
    LET k == Len(native.parts[1])
    IN IF Len(b) >= k THEN b ELSE Zeros(k - Len(b)) \o b

\* rsa.VerifyPKCS1v15(pub, hash, hashed, sig) = nil
rsaVerify(native, hashed, sig) ==
    sig = padToKeySize(native, SignR(native, hashed))

\* dsa.Verify / ecdsa.Verify (pub, hash, r, s), r and s as big integers.
dsaVerify(native, hashed, r, s) ==
    /\ BigFromBytes(r) = SignR(native, hashed)
    /\ BigFromBytes(s) = SignS(native, hashed)

\* ed25519.Verify(pub, message, sig) on a 64-byte signature.
ed25519Verify(native, message, sig) ==
    sig = Zeros(31) \o SignR(native, message) \o Zeros(31) \o SignS(native, message)

(***************************************************************************)
(* Signature verification                                                  *)
(***************************************************************************)

\* A nil *Signature.
NoSig == [Version |-> 0]

\* sig.AddMetadataToHashSuffix(): the literal-data metadata of a v5
\* document signature, six zero bytes when none was recorded.
AddMetadataToHashSuffix(sig) == [sig EXCEPT !.HashSuffix = sig.HashSuffix \o Zeros(6)]

\* The algorithm-specific check of VerifySignature (the switch); "panic"
\* is the slice-bounds panic of the EdDSA copy.
asymmetricCheck(k, sig, hashBytes) ==
    CASE k.PubKeyAlgo \in {PubKeyAlgoRSA, PubKeyAlgoRSASignOnly} ->
           IF rsaVerify(k.PublicKey, hashBytes, padToKeySize(k.PublicKey, FieldBytes(sig.SigR)))
           THEN "nil" ELSE "Signature"
      [] k.PubKeyAlgo = PubKeyAlgoDSA ->
           LET subgroupSize == (SetBig(k.PublicKey.parts[2]).bitLength + 7) \div 8
               h == IF Len(hashBytes) > subgroupSize
                    THEN Slice(hashBytes, 0, subgroupSize) ELSE hashBytes
           IN IF dsaVerify(k.PublicKey, h, FieldBytes(sig.SigR), FieldBytes(sig.SigS))
              THEN "nil" ELSE "Signature"
      [] k.PubKeyAlgo = PubKeyAlgoECDSA ->
           IF dsaVerify(k.PublicKey, hashBytes, FieldBytes(sig.SigR), FieldBytes(sig.SigS))
           THEN "nil" ELSE "Signature"
      [] k.PubKeyAlgo = PubKeyAlgoEdDSA ->
           LET sigR == FieldBytes(sig.SigR)
               sigS == FieldBytes(sig.SigS)
               \* copy(eddsaSig[32-len(sigR):32], sigR); copy(eddsaSig[64-len(sigS):], sigS)
               eddsaSig == [i \in 1..64 |->
                              IF i > 64 - Len(sigS) THEN sigS[i - (64 - Len(sigS))]
                              ELSE IF i > 32 - Len(sigR) /\ i <= 32 THEN sigR[i - (32 - Len(sigR))]
                              ELSE 0]
           IN IF Len(sigR) > 32 \/ Len(sigS) > 64 THEN "panic"
              ELSE IF ed25519Verify(k.PublicKey, hashBytes, eddsaSig) THEN "nil"
              ELSE "Signature"
      [] OTHER -> "Signature"

\* The end of VerifySignature, from the hash tag comparison on, with h1
\* the hash context after the hash suffix was written and hashBytes its
\* digest: [err, h, sig, trace], trace being the checks made, in order.
\* This variant reports an algorithm mismatch as a signature error.
checkHashed_AlgoAsSignature(k, sig1, h1, hashBytes) ==
    IF hashBytes[1] # sig1.HashTag[1] \/ hashBytes[2] # sig1.HashTag[2]
    THEN [err |-> "Signature", h |-> h1, sig |-> sig1, trace |-> <<"CanSign", "HashTag">>]
    ELSE IF k.PubKeyAlgo # sig1.PubKeyAlgo
    THEN [err |-> "Signature", h |-> h1, sig |-> sig1,
          trace |-> <<"CanSign", "HashTag", "PubKeyAlgo">>]
    ELSE [err |-> asymmetricCheck(k, sig1, hashBytes), h |-> h1, sig |-> sig1,
          trace |-> <<"CanSign", "HashTag", "PubKeyAlgo", "Asymmetric">>]

\* A variant that compares the algorithms before the hash tag.
checkHashed_AlgoFirst(k, sig1, h1, hashBytes) ==
    IF k.PubKeyAlgo # sig1.PubKeyAlgo
    THEN [err |-> "InvalidArgument", h |-> h1, sig |-> sig1,
          trace |-> <<"CanSign", "PubKeyAlgo">>]
    ELSE IF hashBytes[1] # sig1.HashTag[1] \/ hashBytes[2] # sig1.HashTag[2]
    THEN [err |-> "Signature", h |-> h1, sig |-> sig1,
          trace |-> <<"CanSign", "PubKeyAlgo", "HashTag">>]
    ELSE [err |-> asymmetricCheck(k, sig1, hashBytes), h |-> h1, sig |-> sig1,
          trace |-> <<"CanSign", "PubKeyAlgo", "HashTag", "Asymmetric">>]

checkHashed(k, sig1, h1, hashBytes) ==
    IF hashBytes[1] # sig1.HashTag[1] \/ hashBytes[2] # sig1.HashTag[2]
    THEN [err |-> "Signature", h |-> h1, sig |-> sig1, trace |-> <<"CanSign", "HashTag">>]
    ELSE IF k.PubKeyAlgo # sig1.PubKeyAlgo
    THEN [err |-> "InvalidArgument", h |-> h1, sig |-> sig1,
          trace |-> <<"CanSign", "HashTag", "PubKeyAlgo">>]
    ELSE [err |-> asymmetricCheck(k, sig1, hashBytes), h |-> h1, sig |-> sig1,
          trace |-> <<"CanSign", "HashTag", "PubKeyAlgo", "Asymmetric">>]

\* signed.Write(sig.HashSuffix); hashBytes := signed.Sum(nil); and the rest.
hashSuffixAndCheck(k, signed, sig1) ==
    LET h1 == HashWrite(signed, sig1.HashSuffix)
    IN checkHashed(k, sig1, h1, HashSum(h1))

\* VerifySignature(signed, sig): [err, h, sig, trace]: the outcome, the
\* hash context and the signature as the call leaves them, and the checks
\* made, in order.
VerifySignature(k, signed, sig) ==
    IF ~CanSign(k)
    THEN [err |-> "InvalidArgument", h |-> signed, sig |-> sig, trace |-> <<"CanSign">>]
    ELSE hashSuffixAndCheck(k, signed,
                            IF sig.Version = 5 /\ (sig.SigType = 0 \/ sig.SigType = 1)
                            THEN AddMetadataToHashSuffix(sig) ELSE sig)

\* A variant that hashes the signed key before the signing key.
keySignatureHash_SignedFirst(k, signed, hashFunc) ==
    IF hashFunc \notin AvailableHashes
    THEN [err |-> "Unsupported", h |-> HashNew(hashFunc)]
    ELSE [err |-> "nil",
          h |-> HashWrite(HashWrite(HashNew(hashFunc), SerializeForHash(signed)),
                          SerializeForHash(k))]

\* keySignatureHash(pk, signed, hashFunc): [err, h]
keySignatureHash(k, signed, hashFunc) ==
    IF hashFunc \notin AvailableHashes
    THEN [err |-> "Unsupported", h |-> HashNew(hashFunc)]
    ELSE [err |-> "nil",
          h |-> HashWrite(HashWrite(HashNew(hashFunc), SerializeForHash(k)),
                          SerializeForHash(signed))]

\* keyRevocationHash(pk, hashFunc): [err, h]
keyRevocationHash(k, hashFunc) ==
    IF hashFunc \notin AvailableHashes
    THEN [err |-> "Unsupported", h |-> HashNew(hashFunc)]
    ELSE [err |-> "nil", h |-> HashWrite(HashNew(hashFunc), SerializeForHash(k))]

\* The end of VerifyKeySignature; inner is what VerifySignature returned
\* for the embedded signature.
afterInner(outer, inner) ==
    [err |-> CASE inner.err = "nil" -> "nil"
               [] inner.err = "panic" -> "panic"
               [] OTHER -> "Structural",
     h |-> outer.h, h2 |-> inner.h,
     trace |-> <<"hash", "outer", "embedded", "hash2", "inner">>]

\* The cross-signature part of VerifyKeySignature, entered with FlagSign
\* set and an embedded signature present, once the outer signature has
\* verified; kh2 is what keySignatureHash returned for the embedded
\* signature's hash.
crossSignature(k, signed, sig, outer, kh2) ==
    IF kh2.err # "nil"
    THEN [err |-> "Structural", h |-> outer.h, h2 |-> HashNew("none"),
          trace |-> <<"hash", "outer", "embedded", "hash2">>]
    ELSE afterInner(outer, VerifySignature(signed, kh2.h, sig.EmbeddedSignature))

\* VerifyKeySignature from the outer VerifySignature call on; outer is what
\* that call returned.
afterOuter(k, signed, sig, outer) ==
    LET none == HashNew("none")
    IN IF outer.err # "nil"
       THEN [err |-> outer.err, h |-> outer.h, h2 |-> none, trace |-> <<"hash", "outer">>]
       ELSE IF ~sig.FlagSign
       THEN [err |-> "nil", h |-> outer.h, h2 |-> none, trace |-> <<"hash", "outer">>]
       ELSE IF sig.EmbeddedSignature = NoSig
       THEN [err |-> "Structural", h |-> outer.h, h2 |-> none,
             trace |-> <<"hash", "outer", "embedded">>]
       ELSE crossSignature(k, signed, sig, outer,
                           keySignatureHash(k, signed, sig.EmbeddedSignature.Hash))

\* VerifyKeySignature from the return of the first keySignatureHash on.
afterHash(k, signed, sig, kh) ==
    IF kh.err # "nil"
    THEN [err |-> kh.err, h |-> HashNew("none"), h2 |-> HashNew("none"), trace |-> <<"hash">>]
    ELSE afterOuter(k, signed, sig, VerifySignature(k, kh.h, sig))

\* VerifyKeySignature(signed, sig): [err, h, h2, trace]: the outcome, the
\* hash contexts of the outer and of the cross-signature check, and the
\* steps taken.
VerifyKeySignature(k, signed, sig) ==
    afterHash(k, signed, sig, keySignatureHash(k, signed, sig.Hash))

\* VerifyRevocationSignature from the return of keyRevocationHash on.
afterRevocationHash(k, sig, kh) ==
    IF kh.err # "nil"
    THEN [err |-> kh.err, h |-> HashNew("none"), sig |-> sig, trace |-> <<"hash">>]
    ELSE VerifySignature(k, kh.h, sig)

\* VerifyRevocationSignature(sig): [err, h, sig, trace]
VerifyRevocationSignature(k, sig) ==
    afterRevocationHash(k, sig, keyRevocationHash(k, sig.Hash))

(***************************************************************************)
(* Inputs                                                                  *)
(***************************************************************************)

\* How many trailing bytes a reader may lose from a serialized packet.
MaxCut == 2

\* Creation times handed to the constructors: 1 s, the largest uint32, and
\* 2^32 + 1 s, which is beyond the 4-byte field.
CreationTimes == {<<0, 0, 0, 1>>, <<0, 0, 65535, 65535>>, <<0, 1, 0, 1>>}

\* rsa.PublicKey inputs: N (big-endian bytes) and E.
RSAModuli == {<<195>>, <<1, 0, 1>>}
RSAExponents == {3, 65537, 16777217}

\* ed25519.PublicKey inputs.
EdDSAPoints == {[i \in 1..PublicKeySize |-> 7], [i \in 1..PublicKeySize |-> i]}

\* Wire encodings used to build packets by hand.
WireMPI(bits, bytes) == BE16(bits) \o bytes
WireOID(bytes) == <<Len(bytes)>> \o bytes
BodyV4(algo, fields) == <<4, 0, 0, 1, 2, algo>> \o fields
BodyV5(algo, count, fields) == <<5, 0, 0, 1, 2, algo>> \o BE32(count) \o fields

\* Packet bodies a peer may send.
CraftedBodies == {
    <<>>,
    <<4, 0, 0>>,
    BodyV4(99, <<>>),
    <<3, 0, 0, 0, 1, 1>> \o WireMPI(8, <<195>>) \o WireMPI(2, <<3>>),
    <<5, 0, 0, 1, 2, 1, 0, 0>>,
    BodyV4(PubKeyAlgoRSA, WireMPI(8, <<195>>)),
    BodyV4(PubKeyAlgoRSA, WireMPI(8, <<195>>) \o WireMPI(17, <<1, 0>>)),
    BodyV4(PubKeyAlgoRSA, WireMPI(8, <<195>>) \o WireMPI(25, <<1, 0, 0, 1>>)),
    BodyV4(PubKeyAlgoRSAEncryptOnly, WireMPI(8, <<195>>) \o WireMPI(17, <<1, 0, 1>>)),
    BodyV4(PubKeyAlgoRSASignOnly, WireMPI(16, <<0, 195>>) \o WireMPI(0, <<>>)),
    BodyV5(PubKeyAlgoRSASignOnly, 7, WireMPI(8, <<195>>) \o WireMPI(2, <<3>>)),
    BodyV5(PubKeyAlgoRSA, 99, WireMPI(8, <<195>>) \o WireMPI(32, <<128, 0, 0, 1>>)),
    BodyV4(PubKeyAlgoDSA, WireMPI(8, <<251>>) \o WireMPI(4, <<13>>) \o WireMPI(3, <<5>>)),
    BodyV4(PubKeyAlgoElGamal, WireMPI(8, <<251>>) \o WireMPI(3, <<5>>) \o WireMPI(9, <<1>>)),
    BodyV4(PubKeyAlgoECDSA, WireOID(<<1, 2, 3>>) \o WireMPI(19, Marshal(1))),
    BodyV4(PubKeyAlgoECDSA, WireOID(OidP256) \o WireMPI(19, <<4, 1, 9>>)),
    BodyV4(PubKeyAlgoECDSA, WireOID(OidEd25519) \o WireMPI(19, Marshal(1))),
    BodyV5(PubKeyAlgoECDSA, 14, WireOID(OidP256) \o WireMPI(19, Marshal(2))),
    BodyV4(PubKeyAlgoECDH, WireOID(<<>>) \o WireMPI(8, <<9>>) \o WireOID(<<1, 8, 7>>)),
    BodyV4(PubKeyAlgoECDH, WireOID(OidP256) \o WireMPI(19, <<4, 1, 9>>) \o WireOID(<<1, 8, 7>>)),
    BodyV4(PubKeyAlgoECDH, WireOID(OidCurve25519) \o WireMPI(8, <<200>>) \o WireOID(<<1, 8>>)),
    BodyV4(PubKeyAlgoECDH, WireOID(OidCurve25519) \o WireMPI(8, <<200>>) \o WireOID(<<2, 8, 7>>)),
    BodyV4(PubKeyAlgoECDH, WireOID(OidCurve25519) \o WireMPI(8, <<200>>) \o WireOID(<<1, 99, 7>>)),
    BodyV4(PubKeyAlgoECDH, WireOID(OidCurve25519) \o WireMPI(8, <<200>>) \o WireOID(<<1, 8, 99>>)),
    BodyV5(PubKeyAlgoECDH, 18, WireOID(OidCurve25519) \o WireMPI(8, <<200>>) \o WireOID(<<1, 10, 9, 0>>)),
    BodyV4(PubKeyAlgoEdDSA, WireOID(OidP256) \o WireMPI(7, <<64>>)),
    BodyV4(PubKeyAlgoEdDSA, WireOID(OidEd25519)),
    BodyV4(PubKeyAlgoEdDSA, WireOID(OidEd25519) \o WireMPI(0, <<>>)),
    BodyV4(PubKeyAlgoEdDSA, WireOID(OidEd25519) \o WireMPI(19, <<4, 1, 8>>)),
    BodyV4(PubKeyAlgoEdDSA, WireOID(OidEd25519) \o WireMPI(8, <<237>>)),
    BodyV4(PubKeyAlgoEdDSA, WireOID(OidEd25519) \o WireMPI(23, <<64, 1, 2>>)),
    BodyV5(PubKeyAlgoEdDSA, 45, WireOID(OidEd25519) \o WireMPI(263, <<64>> \o [i \in 1..32 |-> 9])) }

(***************************************************************************)
(* Key operations                                                          *)
(***************************************************************************)

NoStr == <<<<>>, <<>>>>

\* A key a caller holds: the last constructor, parse or upgrade returned
\* without error (a caller drops the receiver of a failed parse).
Usable == err = "nil"

\* The state after a call that returned a key.
Returned(op, before, after, e, in) ==
    /\ pk' = after
    /\ prev' = before
    /\ lastOp' = op
    /\ err' = e
    /\ input' = in
    /\ wire' = <<>>
    /\ sent' = NewPublicKey
    /\ str' = NoStr

\* The keys each constructor returns on the inputs above.
RSAKeys == {NewRSAPublicKey(t, N, E) : t \in CreationTimes, N \in RSAModuli, E \in RSAExponents}
DSAKeys == {NewDSAPublicKey(t, <<251>>, <<13>>, <<5>>, <<1, 44>>) : t \in CreationTimes}
ElGamalKeys == {NewElGamalPublicKey(t, <<251>>, <<5>>, <<77>>) : t \in CreationTimes}
ECDSAKeys == {NewECDSAPublicKey(t, X) : t \in CreationTimes, X \in {1, 2}}
ECDHKeys == {NewECDHPublicKey(t, TRUE, <<200, 3>>, 8, 7) : t \in CreationTimes}
            \cup {NewECDHPublicKey(t, FALSE, 2, 10, 9) : t \in CreationTimes}
EdDSAKeys == {NewEdDSAPublicKey(t, pub) : t \in CreationTimes, pub \in EdDSAPoints}

DoNewRSA ==
    /\ \E k \in RSAKeys : Returned("NewRSAPublicKey", NewPublicKey, k, "nil", <<>>)
    /\ UNCHANGED verVars
    /\ UNCHANGED shaVars

DoNewDSA ==
    /\ \E k \in DSAKeys : Returned("NewDSAPublicKey", NewPublicKey, k, "nil", <<>>)
    /\ UNCHANGED verVars
    /\ UNCHANGED shaVars

DoNewElGamal ==
    /\ \E k \in ElGamalKeys : Returned("NewElGamalPublicKey", NewPublicKey, k, "nil", <<>>)
    /\ UNCHANGED verVars
    /\ UNCHANGED shaVars

DoNewECDSA ==
    /\ \E k \in ECDSAKeys : Returned("NewECDSAPublicKey", NewPublicKey, k, "nil", <<>>)
    /\ UNCHANGED verVars
    /\ UNCHANGED shaVars

DoNewECDH ==
    /\ \E k \in ECDHKeys : Returned("NewECDHPublicKey", NewPublicKey, k, "nil", <<>>)
    /\ UNCHANGED verVars
    /\ UNCHANGED shaVars

DoNewEdDSA ==
    /\ \E k \in EdDSAKeys : Returned("NewEdDSAPublicKey", NewPublicKey, k, "nil", <<>>)
    /\ UNCHANGED verVars
    /\ UNCHANGED shaVars

DoUpgradeToV5 ==
    /\ Usable
    /\ Returned("UpgradeToV5", pk, UpgradeToV5(pk), "nil", <<>>)
    /\ UNCHANGED verVars
    /\ UNCHANGED shaVars

DoSerialize ==
    /\ Usable
    /\ pk' = pk
    /\ prev' = pk
    /\ lastOp' = "Serialize"
    /\ err' = "nil"
    /\ input' = <<>>
    /\ wire' = Serialize(pk)
    /\ sent' = pk
    /\ str' = NoStr
    /\ UNCHANGED verVars
    /\ UNCHANGED shaVars

DoKeyIdString ==
    /\ Usable
    /\ pk' = pk
    /\ prev' = pk
    /\ lastOp' = "KeyIdString"
    /\ err' = "nil"
    /\ input' = <<>>
    /\ wire' = <<>>
    /\ sent' = NewPublicKey
    /\ str' = <<KeyIdString(pk), KeyIdShortString(pk)>>
    /\ UNCHANGED verVars
    /\ UNCHANGED shaVars

\* The packet reader: a new PublicKey with IsSubkey from the packet tag,
\* then parse on the packet's contents.
Receiver(isSubkey) == [NewPublicKey EXCEPT !.IsSubkey = isSubkey]

\* Reads back the packet the last Serialize wrote, less cut trailing bytes.
DoParseWire ==
    /\ lastOp = "Serialize"
    /\ \E cut \in 0..MaxCut :
         LET body == PacketBody(wire)
             in == Slice(body, 0, Len(body) - Min(cut, Len(body)))
             recv == Receiver(wire[1] = 192 + packetTypePublicSubkey)
             res == parse(recv, in)
         IN /\ pk' = res.pk
            /\ prev' = recv
            /\ lastOp' = IF cut = 0 THEN "parseWire" ELSE "parseCut"
            /\ err' = res.err
            /\ input' = in
    /\ UNCHANGED <<wire, sent>>
    /\ str' = NoStr
    /\ UNCHANGED verVars
    /\ UNCHANGED shaVars

\* parse on each packet a peer may send, for either packet tag.
CraftedParses ==
    {[in |-> b, recv |-> Receiver(isSubkey), res |-> parse(Receiver(isSubkey), b)] :
        b \in CraftedBodies, isSubkey \in BOOLEAN}

\* Reads a packet a peer sent.
DoParseCrafted ==
    /\ \E c \in CraftedParses : Returned("parse", c.recv, c.res.pk, c.res.err, c.in)
    /\ UNCHANGED verVars
    /\ UNCHANGED shaVars

(***************************************************************************)
(* Specification of the key operations                                     *)
(***************************************************************************)

InitKey ==
    /\ pk = NewPublicKey
    /\ prev = NewPublicKey
    /\ lastOp = "new"
    /\ err = "unset"
    /\ wire = <<>>
    /\ sent = NewPublicKey
    /\ input = <<>>
    /\ str = NoStr

InitVerIdle ==
    /\ vop = "none"
    /\ vkey = NewPublicKey
    /\ vsigned = NewPublicKey
    /\ vsig = NoSig
    /\ vsigOut = NoSig
    /\ vhash0 = HashNew("none")
    /\ vhash = HashNew("none")
    /\ vhash2 = HashNew("none")
    /\ verr = "unset"
    /\ vtrace = <<>>
    /\ vnow = [sec |-> ZeroTime, nsec |-> 0]
    /\ vexpired = FALSE

InitSha ==
    /\ dig = Reset
    /\ digPrev = Reset
    /\ digOp = "New"
    /\ digSum = <<>>
    /\ digNx = 0
    /\ digData = <<>>
    /\ digWrites = 0

Init == InitKey /\ InitVerIdle /\ InitSha

Next ==
    \/ DoNewRSA
    \/ DoNewDSA
    \/ DoNewElGamal
    \/ DoNewECDSA
    \/ DoNewECDH
    \/ DoNewEdDSA
    \/ DoUpgradeToV5
    \/ DoSerialize
    \/ DoKeyIdString
    \/ DoParseWire
    \/ DoParseCrafted

Spec == Init /\ [][Next]_vars

(***************************************************************************)
(* Verification: the signatures handed to the verifier, and the calls      *)
(***************************************************************************)

\* The digest bytes the holder of key k signs: DSA signs the digest
\* truncated to the size of q, the others the whole digest.
DigestToSign(k, digest) ==
    IF k.PubKeyAlgo = PubKeyAlgoDSA
    THEN Slice(digest, 0, Min((SetBig(k.PublicKey.parts[2]).bitLength + 7) \div 8, Len(digest)))
    ELSE digest

\* A signature record with the hash tag and the values made from digest.
Signed(k, blank, digest, signedBytes) ==
    [blank EXCEPT !.HashTag = <<digest[1], digest[2]>>,
                  !.SigR = NewMPI(SignR(k.PublicKey, signedBytes)),
                  !.SigS = NewMPI(SignS(k.PublicKey, signedBytes))]

\* The signature the holder of key k makes over the hash context h0: the
\* hash suffix is hashed after h0, the first two digest bytes are kept as
\* the hash tag.
Sign(k, h0, version, sigType, suffix) ==
    LET blank == [Version |-> version, SigType |-> sigType, Hash |-> h0.alg,
                  PubKeyAlgo |-> k.PubKeyAlgo, HashSuffix |-> suffix,
                  HashTag |-> <<0, 0>>, SigR |-> EmptyMPI, SigS |-> EmptyMPI,
                  FlagSign |-> FALSE, EmbeddedSignature |-> NoSig]
        hashed == IF version = 5 /\ (sigType = 0 \/ sigType = 1)
                  THEN AddMetadataToHashSuffix(blank).HashSuffix ELSE suffix
        digest == HashSum(HashWrite(h0, hashed))
    IN Signed(k, blank, digest, DigestToSign(k, digest))

\* What reaches the verifier: the signature as made, or one altered on the
\* way.
Alterations == {"none", "tag", "algo", "tag+algo", "value", "long"}

Altered(sig, how) ==
    LET tag == <<(sig.HashTag[1] + 1) % 256, sig.HashTag[2]>>
        algo == IF sig.PubKeyAlgo = PubKeyAlgoDSA THEN PubKeyAlgoECDSA ELSE PubKeyAlgoDSA
        r == FieldBytes(sig.SigR)
    IN CASE how = "none" -> sig
         [] how = "tag" -> [sig EXCEPT !.HashTag = tag]
         [] how = "algo" -> [sig EXCEPT !.PubKeyAlgo = algo]
         [] how = "tag+algo" -> [sig EXCEPT !.HashTag = tag, !.PubKeyAlgo = algo]
         [] how = "value" -> [sig EXCEPT !.SigR = NewMPI(<<(r[1] % 255) + 1>>)]
         [] how = "long" -> [sig EXCEPT !.SigR = [kind |-> "mpi", bitLength |-> 257,
                                                 bytes |-> <<1>> \o Zeros(32 - Len(r)) \o r]]

\* Keys a verification is called on, signing-capable or not: one of each
\* algorithm and a version 5 one.
RSAKey == NewRSAPublicKey(<<0, 0, 0, 1>>, <<1, 0, 1>>, 65537)
DSAKey == NewDSAPublicKey(<<0, 0, 0, 1>>, <<251>>, <<13>>, <<5>>, <<1, 44>>)
ECDSAKey == NewECDSAPublicKey(<<0, 0, 0, 1>>, 1)
EdDSAKey == NewEdDSAPublicKey(<<0, 0, 0, 1>>, [i \in 1..PublicKeySize |-> 7])
ElGamalKey == NewElGamalPublicKey(<<0, 0, 0, 1>>, <<251>>, <<5>>, <<77>>)
ECDHKey == NewECDHPublicKey(<<0, 0, 0, 1>>, FALSE, 2, 10, 9)

VerifierKeys == {RSAKey, DSAKey, ECDSAKey, EdDSAKey, ElGamalKey, ECDHKey, UpgradeToV5(RSAKey)}

\* The calls of VerifySignature made: the key, the hash context handed in
\* (a SHA-1 or SHA-256 context with nothing or two bytes written), the
\* signature (version 4 or 5, over a document or a subkey binding), and
\* what the call returns.
VerifySignatureCalls ==
    {[key |-> k, h0 |-> h0, sig |-> sig, ret |-> VerifySignature(k, h0, sig)] :
       <<k, h0, sig>> \in
         {<<k, HashWrite(HashNew(a), m),
            Altered(Sign(k, HashWrite(HashNew(a), m), v[1], v[2], <<4, 0, 1, 8, 0, 0>>), how)>> :
            k \in VerifierKeys, a \in {"SHA1", "SHA256"}, m \in {<<>>, <<104, 105>>},
            v \in {<<4, 0>>, <<5, 0>>, <<5, 24>>}, how \in Alterations}}

DoVerifySignature ==
    /\ \E c \in VerifySignatureCalls :
         /\ vop' = "VerifySignature"
         /\ vkey' = c.key
         /\ vsigned' = NewPublicKey
         /\ vsig' = c.sig
         /\ vsigOut' = c.ret.sig
         /\ vhash0' = c.h0
         /\ vhash' = c.ret.h
         /\ vhash2' = HashNew("none")
         /\ verr' = c.ret.err
         /\ vtrace' = c.ret.trace
    /\ UNCHANGED <<vnow, vexpired>>
    /\ UNCHANGED keyVars
    /\ UNCHANGED shaVars

\* Subkey bindings: the primary keys and the subkeys.
PrimaryKeys == {RSAKey, EdDSAKey, ElGamalKey}

SubKeys == {[k EXCEPT !.IsSubkey = TRUE] : k \in {ECDSAKey, EdDSAKey, ECDHKey}}

\* The binding signature by primary over subkey: subkey binding (0x18)
\* outside, primary key binding (0x19) embedded; the embedded signature is
\* altered as the outer one can be, or absent, or names a hash that is not
\* linked in.
Binding(primary, sub, hashFunc, how, flagSign, embedding) ==
    LET kh == keySignatureHash(primary, sub, hashFunc)
        outer == Altered(Sign(primary, kh.h, 4, 24, <<4, 24, 1, 8, 0, 0>>), how)
        kh2 == keySignatureHash(primary, sub, "SHA1")
        cross == Sign(sub, kh2.h, 4, 25, <<4, 25, 1, 2, 0, 0>>)
        emb == CASE embedding = "absent" -> NoSig
                 [] embedding = "hash" -> [cross EXCEPT !.Hash = "RIPEMD160"]
                 [] OTHER -> Altered(cross, embedding)
    IN [outer EXCEPT !.FlagSign = flagSign, !.EmbeddedSignature = emb]

VerifyKeySignatureCalls ==
    {[key |-> b[1], signed |-> b[2], sig |-> b[3], ret |-> VerifyKeySignature(b[1], b[2], b[3])] :
       b \in {<<p, s, Binding(p, s, a, how, f, e)>> :
                p \in PrimaryKeys, s \in SubKeys, a \in {"SHA256", "RIPEMD160"},
                how \in Alterations \ {"tag+algo"}, f \in BOOLEAN,
                e \in Alterations \cup {"absent", "hash"}}}

DoVerifyKeySignature ==
    /\ \E c \in VerifyKeySignatureCalls :
         /\ vop' = "VerifyKeySignature"
         /\ vkey' = c.key
         /\ vsigned' = c.signed
         /\ vsig' = c.sig
         /\ vsigOut' = c.sig
         /\ vhash0' = HashNew("none")
         /\ vhash' = c.ret.h
         /\ vhash2' = c.ret.h2
         /\ verr' = c.ret.err
         /\ vtrace' = c.ret.trace
    /\ UNCHANGED <<vnow, vexpired>>
    /\ UNCHANGED keyVars
    /\ UNCHANGED shaVars

\* Key revocations (0x20) by the key itself, as made or with the hash tag
\* altered, over a hash that is linked in or one that is not.
VerifyRevocationSignatureCalls ==
    {[key |-> c[1], sig |-> c[2], ret |-> VerifyRevocationSignature(c[1], c[2])] :
       c \in {<<k, Altered(Sign(k, keyRevocationHash(k, a).h, 4, 32, <<4, 32, 1, 8, 0, 0>>), how)>> :
                k \in VerifierKeys, a \in {"SHA256", "RIPEMD160"}, how \in {"none", "tag"}}}

DoVerifyRevocationSignature ==
    /\ \E c \in VerifyRevocationSignatureCalls :
         /\ vop' = "VerifyRevocationSignature"
         /\ vkey' = c.key
         /\ vsigned' = NewPublicKey
         /\ vsig' = c.sig
         /\ vsigOut' = c.ret.sig
         /\ vhash0' = HashNew("none")
         /\ vhash' = c.ret.h
         /\ vhash2' = HashNew("none")
         /\ verr' = c.ret.err
         /\ vtrace' = c.ret.trace
    /\ UNCHANGED <<vnow, vexpired>>
    /\ UNCHANGED keyVars
    /\ UNCHANGED shaVars

NextVerify ==
    \/ DoVerifySignature
    \/ DoVerifyKeySignature
    \/ DoVerifyRevocationSignature

SpecVerify == Init /\ [][NextVerify]_vars

(***************************************************************************)
(* Key expiry: the calls of KeyExpired                                     *)
(***************************************************************************)

\* Lifetimes a self-signature declares: none, or a number of seconds.
Lifetimes == {<<>>, <<0, 0>>, <<0, 10>>, <<1, 0>>, <<65535, 65535>>}

\* Reference times around a key created at c: one second before c, and c
\* plus a number of seconds (up to one more than the longest lifetime).
ReferenceTimes(c) ==
    LET created == [sec |-> c, nsec |-> 0]
        b4 == c[4] - 1
        b3 == c[3] - (IF b4 < 0 THEN 1 ELSE 0)
        b2 == c[2] - (IF b3 < 0 THEN 1 ELSE 0)
        b1 == c[1] - (IF b2 < 0 THEN 1 ELSE 0)
    IN {<<(b1 + 65536) % 65536, (b2 + 65536) % 65536,
          (b3 + 65536) % 65536, (b4 + 65536) % 65536>>,
        Add(Add(created, <<65535, 65535>>), <<0, 1>>).sec}
       \cup {Add(created, d).sec :
               d \in {<<0, 0>>, <<0, 1>>, <<0, 9>>, <<0, 10>>, <<0, 11>>,
                      <<1, 0>>, <<1, 1>>, <<65535, 65535>>}}

\* The calls of KeyExpired made: the key, the self-signature, the
\* reference time (on the second or a nanosecond after it), and the value
\* returned.
KeyExpiredCalls ==
    {[key |-> c[1], sig |-> c[2], now |-> c[3], ret |-> KeyExpired(c[1], c[2], c[3])] :
       c \in {<<NewRSAPublicKey(created, <<195>>, 3),
                [Version |-> 4, KeyLifetimeSecs |-> l], [sec |-> t, nsec |-> n]>> :
                created \in CreationTimes, l \in Lifetimes,
                t \in UNION {ReferenceTimes(x) : x \in CreationTimes}, n \in {0, 1}}}

DoKeyExpired ==
    /\ \E c \in KeyExpiredCalls :
         /\ vop' = "KeyExpired"
         /\ vkey' = c.key
         /\ vsig' = c.sig
         /\ vnow' = c.now
         /\ vexpired' = c.ret
    /\ UNCHANGED <<vsigned, vsigOut, vhash0, vhash, vhash2, verr, vtrace>>
    /\ UNCHANGED keyVars
    /\ UNCHANGED shaVars

NextExpiry == DoKeyExpired

SpecExpiry == Init /\ [][NextExpiry]_vars

(***************************************************************************)
(* The SHA-1 digest: Reset, Write and Sum in any order                     *)
(***************************************************************************)

\* The largest number of Write calls followed.
MaxWrites == 3

\* The lengths of the slices written: around the padding limit of 56 bytes
\* and the block size, and more than two blocks.
WriteLengths == {0, 1, 55, 56, 63, 64, 65, 130}

DoReset ==
    /\ dig' = ResetDigest(dig)
    /\ digPrev' = dig
    /\ digOp' = "Reset"
    /\ digData' = <<>>
    /\ UNCHANGED <<digSum, digNx, digWrites>>
    /\ UNCHANGED keyVars
    /\ UNCHANGED verVars

DoWrite ==
    /\ digWrites < MaxWrites
    /\ \E n \in WriteLengths :
         \E p \in {[i \in 1..n |-> (7 * i + n) % 256]} :
            /\ dig' = Write(dig, p)
            /\ digData' = digData \o p
    /\ digPrev' = dig
    /\ digOp' = "Write"
    /\ digWrites' = digWrites + 1
    /\ UNCHANGED <<digSum, digNx>>
    /\ UNCHANGED keyVars
    /\ UNCHANGED verVars

DoSum ==
    /\ \E r \in {Sum(dig)} :
         /\ dig' = r.d
         /\ digSum' = r.hash
         /\ digNx' = r.nx
    /\ digPrev' = dig
    /\ digOp' = "Sum"
    /\ UNCHANGED <<digData, digWrites>>
    /\ UNCHANGED keyVars
    /\ UNCHANGED verVars

NextSha ==
    \/ DoReset
    \/ DoWrite
    \/ DoSum

SpecSha == Init /\ [][NextSha]_vars

(***************************************************************************)
(* Properties of the key operations                                        *)
(***************************************************************************)

ParseOps == {"parse", "parseWire", "parseCut"}

\* The wire form of the algorithm-specific fields, in the order the data
\* model gives for each algorithm family.
FieldsOnWire(k) ==
    Concat(CASE k.PubKeyAlgo \in RSAFamily -> <<EncodedBytes(k.n), EncodedBytes(k.e)>>
             [] k.PubKeyAlgo = PubKeyAlgoDSA ->
                  <<EncodedBytes(k.p), EncodedBytes(k.q), EncodedBytes(k.g), EncodedBytes(k.y)>>
             [] k.PubKeyAlgo = PubKeyAlgoElGamal ->
                  <<EncodedBytes(k.p), EncodedBytes(k.g), EncodedBytes(k.y)>>
             [] k.PubKeyAlgo = PubKeyAlgoECDSA -> <<EncodedBytes(k.oid), EncodedBytes(k.p)>>
             [] k.PubKeyAlgo = PubKeyAlgoECDH ->
                  <<EncodedBytes(k.oid), EncodedBytes(k.p), EncodedBytes(k.kdf)>>
             [] k.PubKeyAlgo = PubKeyAlgoEdDSA -> <<EncodedBytes(k.oid), EncodedBytes(k.p)>>
             [] OTHER -> <<>>)

\* The big-endian integer a sequence of up to three length bytes carries.
LengthValue(b) == BytesToInt(0, b)

\* The low 32 bits of a creation time as four bytes.
TimeBytes(t) == <<t[3] \div 256, t[3] % 256, t[4] \div 256, t[4] % 256>>

\* The 8 bytes b as a big-endian 64-bit integer (in 16-bit limbs).
BigEndian64(b) == [i \in 1..4 |-> b[2 * i - 1] * 256 + b[2 * i]]

\* The digest the key's version calls for, over the key's current fields.
VersionDigest(k) ==
    IF k.Version = 5 THEN Sha256Sum(SerializeForHash(k)) ELSE Sha1Sum(SerializeForHash(k))

\* C1: for a key of version 4 or 5, SerializeForHash writes the prefix and
\* then the body; the prefix is 0x99 and the 2-byte L + 6 (v4) or 0x9A and
\* the 4-byte L + 10 (v5), L being the length of the encoded fields; the
\* length in the prefix is the number of body bytes written after it; the
\* body is version, creation time, algorithm, L (v5 only), the fields.
C1_PrefixLengthIsBodyLength ==
    (Usable /\ pk.Version \in {4, 5}) =>
        LET out == SerializeForHash(pk)
            v5 == pk.Version = 5
            plen == IF v5 THEN 5 ELSE 3
            body == SliceFrom(out, plen)
            fields == FieldsOnWire(pk)
            L == Len(fields)
            \* the v5 length's top byte is kept apart: the rest fits 24 bits
            declared == LengthValue(Slice(out, IF v5 THEN 2 ELSE 1, plen))
        IN /\ out[1] = (IF v5 THEN 154 ELSE 153)
           /\ (v5 => out[2] = 0)
           /\ declared = L + (IF v5 THEN 10 ELSE 6)
           /\ declared = Len(body)
           /\ body = <<pk.Version>> \o TimeBytes(pk.CreationTime) \o <<pk.PubKeyAlgo>>
                     \o (IF v5 THEN <<0>> \o <<L \div 65536, (L \div 256) % 256, L % 256>> ELSE <<>>)
                     \o fields

C1_Witness ==
    /\ Usable
    /\ pk.Version = 5
    /\ pk.PubKeyAlgo = PubKeyAlgoECDH
    /\ Len(SerializeForHash(pk)) = 5 + 10 + Len(FieldsOnWire(pk))

\* C2: once the fingerprint is set, it is 20 bytes long at version 4 and
\* 32 bytes long at version 5, and KeyId is the big-endian integer of
\* fingerprint bytes 12..19 (v4) or 0..7 (v5).
C2_FingerprintShape ==
    (pk.Fingerprint # <<>>) =>
        /\ pk.Version \in {4, 5}
        /\ pk.Version = 4 =>
             /\ Len(pk.Fingerprint) = 20
             /\ pk.KeyId = BigEndian64([i \in 1..8 |-> pk.Fingerprint[12 + i]])
        /\ pk.Version = 5 =>
             /\ Len(pk.Fingerprint) = 32
             /\ pk.KeyId = BigEndian64([i \in 1..8 |-> pk.Fingerprint[i]])

C2_Witness ==
    /\ lastOp = "parseWire"
    /\ pk.Version = 5
    /\ Len(pk.Fingerprint) = 32
    /\ pk.KeyId # <<0, 0, 0, 0>>

\* C3: after constructors, successful parses and upgrades the stored
\* fingerprint is the version's digest of what SerializeForHash produces
\* from the current fields: it is never stale.
C3_FingerprintFresh ==
    Usable => pk.Fingerprint = VersionDigest(pk)

C3_Witness ==
    /\ lastOp = "UpgradeToV5"
    /\ prev.Version = 4
    /\ pk.Fingerprint = Sha256Sum(SerializeForHash(pk))
    /\ pk.Fingerprint # prev.Fingerprint

\* A creation time within the unsigned 32-bit second range.
InUint32Range(t) == t[1] = 0 /\ t[2] = 0

\* The parsed key k carries the data of the original key o.
SameKeyData(k, o) ==
    /\ k.Version = o.Version
    /\ k.CreationTime = o.CreationTime
    /\ k.PubKeyAlgo = o.PubKeyAlgo
    /\ FieldsOnWire(k) = FieldsOnWire(o)
    /\ \A f \in {"n", "e", "p", "q", "g", "y", "oid", "kdf"} :
         o[f] # NilField => k[f] = o[f]
    /\ k.Fingerprint = o.Fingerprint
    /\ k.KeyId = o.KeyId

\* C4 as stated: every key of version 4 or 5, of a supported algorithm and
\* with a creation time in the uint32 range, is reproduced by parse from
\* the packet body Serialize wrote.
C4_RoundTripAsStated ==
    (/\ lastOp = "parseWire"
     /\ sent.Version \in {4, 5}
     /\ sent.PubKeyAlgo \in SupportedAlgos
     /\ InUint32Range(sent.CreationTime))
    => (err = "nil" /\ SameKeyData(pk, sent))

\* C4, amended: the round trip holds for the keys above whose RSA
\* exponent, if any, encodes in at most 3 bytes.
C4_RoundTrip ==
    (/\ lastOp = "parseWire"
     /\ sent.Version \in {4, 5}
     /\ sent.PubKeyAlgo \in SupportedAlgos
     /\ InUint32Range(sent.CreationTime)
     /\ sent.PubKeyAlgo \in RSAFamily => Len(FieldBytes(sent.e)) <= 3)
    => (err = "nil" /\ SameKeyData(pk, sent))

C4_Witness ==
    /\ lastOp = "parseWire"
    /\ err = "nil"
    /\ sent.Version = 5
    /\ sent.PubKeyAlgo = PubKeyAlgoECDH
    /\ InUint32Range(sent.CreationTime)
    /\ pk.Fingerprint = sent.Fingerprint
    /\ pk.kdf = sent.kdf

\* C5 as stated: a parse that returns an error leaves every field of its
\* receiver as it was.
C5_FailedParseAsStated ==
    (lastOp \in ParseOps /\ err \notin {"nil", "panic"}) => pk = prev

\* C5, amended: a parse that returns an error leaves Fingerprint, KeyId,
\* PublicKey and IsSubkey of its receiver as they were (Version,
\* CreationTime, PubKeyAlgo and the fields read so far may be overwritten).
C5_FailedParse ==
    (lastOp \in ParseOps /\ err \notin {"nil", "panic"}) =>
        /\ pk.Fingerprint = prev.Fingerprint
        /\ pk.KeyId = prev.KeyId
        /\ pk.PublicKey = prev.PublicKey
        /\ pk.IsSubkey = prev.IsSubkey

C5_Witness ==
    /\ lastOp = "parse"
    /\ err = "Unsupported"
    /\ pk.Version = 4
    /\ pk.PubKeyAlgo \in RSAFamily
    /\ pk.e # prev.e
    /\ pk.Fingerprint = prev.Fingerprint

\* Four capital hex digits of a 16-bit limb.
Hex16(w) == HexUpper(<<w \div 256, w % 256>>)

\* C6: KeyIdString is the capital hex of the 8 bytes of KeyId and
\* KeyIdShortString that of its last 4 bytes, at version 4 and at version 5.
C6_KeyIdStrings ==
    lastOp = "KeyIdString" =>
        /\ str[1] = Hex16(pk.KeyId[1]) \o Hex16(pk.KeyId[2]) \o Hex16(pk.KeyId[3]) \o Hex16(pk.KeyId[4])
        /\ str[2] = Hex16(pk.KeyId[3]) \o Hex16(pk.KeyId[4])

\* C7: UpgradeToV5 sets Version to 5 and recomputes Fingerprint and KeyId
\* by the v5 rule, leaves CreationTime, PubKeyAlgo, IsSubkey and the
\* algorithm's fields alone, and a second call changes nothing.
C7_UpgradeToV5 ==
    lastOp = "UpgradeToV5" =>
        /\ pk.Version = 5
        /\ pk.Fingerprint = Sha256Sum(SerializeForHash(pk))
        /\ Len(pk.Fingerprint) = 32
        /\ pk.KeyId = BigEndian64([i \in 1..8 |-> pk.Fingerprint[i]])
        /\ [pk EXCEPT !.Version = 0, !.Fingerprint = <<>>, !.KeyId = <<0, 0, 0, 0>>]
             = [prev EXCEPT !.Version = 0, !.Fingerprint = <<>>, !.KeyId = <<0, 0, 0, 0>>]
        /\ prev.Version = 5 => pk = prev
        /\ UpgradeToV5(pk) = pk

C7_Witness ==
    /\ lastOp = "UpgradeToV5"
    /\ prev.Version = 4
    /\ prev.IsSubkey
    /\ pk.Version = 5
    /\ pk.KeyId # prev.KeyId
    /\ pk.CreationTime = prev.CreationTime

\* An RSA-family packet body with a readable modulus and exponent.
RSAPacket(b) ==
    /\ Len(b) >= 6
    /\ b[1] \in {4, 5}
    /\ b[6] \in RSAFamily
    /\ b[1] = 5 => Len(b) >= 10
    /\ LET m == MPIReadFrom(SliceFrom(b, IF b[1] = 5 THEN 10 ELSE 6))
       IN m.ok /\ MPIReadFrom(m.rest).ok

\* The number of bytes of that packet's exponent.
ExponentLen(b) ==
    Len(MPIReadFrom(MPIReadFrom(SliceFrom(b, IF b[1] = 5 THEN 10 ELSE 6)).rest).field.bytes)

\* C8: parse of an RSA-family packet with well-formed modulus and exponent
\* fails as unsupported when the exponent has 4 or more bytes and succeeds
\* when it has 3 or fewer.
C8_RSAExponent ==
    (lastOp \in ParseOps /\ RSAPacket(input)) =>
        /\ ExponentLen(input) >= 4 => err = "Unsupported"
        /\ ExponentLen(input) <= 3 => err = "nil"

C8_Witness ==
    /\ lastOp = "parseWire"
    /\ RSAPacket(input)
    /\ ExponentLen(input) = 4
    /\ err = "Unsupported"
    /\ sent.PublicKey.parts[2] = <<16777217>>

\* The digest VerifySignature compares with the hash tag: that of the
\* bytes handed in followed by the hash suffix of the signature.
DigestOfCall == HashSum(HashWrite(vhash0, vsigOut.HashSuffix))

TagMismatch ==
    \/ DigestOfCall[1] # vsig.HashTag[1]
    \/ DigestOfCall[2] # vsig.HashTag[2]

AlgoMismatch == vkey.PubKeyAlgo # vsig.PubKeyAlgo

\* C9 as stated: on a signing-capable key, VerifySignature returns a
\* signature error when the first two digest bytes differ from the hash
\* tag, and also when the tag matches and the algorithm of the key differs
\* from that of the signature.
C9_MismatchAsStated ==
    (vop = "VerifySignature" /\ CanSign(vkey)) =>
        /\ TagMismatch => verr = "Signature"
        /\ (~TagMismatch /\ AlgoMismatch) => verr = "Signature"

\* C9, amended: on a signing-capable key, VerifySignature returns a
\* signature error when the first two digest bytes differ from the hash
\* tag; when the tag matches and the algorithm of the key differs from that
\* of the signature it returns an invalid-argument error, the class of a
\* key that cannot sign.
C9_Mismatch ==
    (vop = "VerifySignature" /\ CanSign(vkey)) =>
        /\ TagMismatch => verr = "Signature"
        /\ (~TagMismatch /\ AlgoMismatch) => verr = "InvalidArgument"

C9_Witness ==
    /\ vop = "VerifySignature"
    /\ CanSign(vkey)
    /\ ~TagMismatch
    /\ AlgoMismatch
    /\ verr = "InvalidArgument"
    /\ vhash.data = vhash0.data \o vsigOut.HashSuffix

\* C10: VerifyKeySignature succeeds exactly when the outer signature
\* verifies and, with FlagSign set, an embedded signature is present and
\* verifies under the signed key; a failing outer signature gives a
\* non-structural error and the embedded signature is not looked at; with
\* FlagSign set, a missing embedded signature and one that does not verify
\* each give a structural error.
C10_KeySignatureOutcome ==
    vop = "VerifyKeySignature" =>
        LET kh == keySignatureHash(vkey, vsigned, vsig.Hash)
            OuterVerifies == kh.err = "nil" /\ VerifySignature(vkey, kh.h, vsig).err = "nil"
            emb == vsig.EmbeddedSignature
            EmbeddedPresent == emb # NoSig
            kh2 == keySignatureHash(vkey, vsigned, emb.Hash)
            EmbeddedVerifies == kh2.err = "nil" /\ VerifySignature(vsigned, kh2.h, emb).err = "nil"
        IN /\ verr = "nil" <=>
                (OuterVerifies /\ (vsig.FlagSign => (EmbeddedPresent /\ EmbeddedVerifies)))
           /\ ~OuterVerifies =>
                /\ verr \in {"InvalidArgument", "Signature", "Unsupported"}
                /\ vhash2 = HashNew("none")
                /\ Len(vtrace) <= 2
           /\ (OuterVerifies /\ vsig.FlagSign /\ ~EmbeddedPresent) => verr = "Structural"
           /\ (OuterVerifies /\ vsig.FlagSign /\ EmbeddedPresent /\ ~EmbeddedVerifies) =>
                verr = "Structural"

\* The checks of VerifySignature, in the order the claim gives them.
CheckOrder == <<"CanSign", "HashTag", "PubKeyAlgo", "Asymmetric">>

\* C13: VerifySignature checks in a fixed order and returns the outcome of
\* the first failing check: a key that cannot sign is rejected as invalid
\* use with nothing written to the hash; then the hash suffix is written
\* and a hash tag mismatch rejected; then an algorithm mismatch rejected;
\* only then the asymmetric check runs, so it is not reached when an
\* earlier check fails, and a wrong tag with a wrong algorithm gives the
\* hash tag outcome.
C13_CheckOrder ==
    vop = "VerifySignature" =>
        /\ \E n \in 1..4 : vtrace = SubSeq(CheckOrder, 1, n)
        /\ ~CanSign(vkey) =>
             /\ verr = "InvalidArgument"
             /\ vhash = vhash0
             /\ vtrace = <<"CanSign">>
        /\ CanSign(vkey) =>
             /\ vhash = HashWrite(vhash0, vsigOut.HashSuffix)
             /\ TagMismatch => (verr = "Signature" /\ vtrace = SubSeq(CheckOrder, 1, 2))
             /\ (~TagMismatch /\ AlgoMismatch) =>
                  (verr = "InvalidArgument" /\ vtrace = SubSeq(CheckOrder, 1, 3))
             /\ (~TagMismatch /\ ~AlgoMismatch) => vtrace = CheckOrder

\* A signing-capable key and a signature with both a wrong hash tag and a
\* wrong algorithm: the hash tag outcome.
C13_Witness ==
    /\ vop = "VerifySignature"
    /\ CanSign(vkey)
    /\ TagMismatch
    /\ AlgoMismatch
    /\ verr = "Signature"
    /\ vtrace = <<"CanSign", "HashTag">>

\* The bytes of key k that a key signature is computed over: the
\* signature prefix, then the packet body.
Preimage(k) == SerializeSignaturePrefix(k) \o serializeWithoutHeaders(k)

\* C14: in VerifyKeySignature the hash is fed the preimage of the signing
\* key, then that of the signed key, then the hash suffix of the signature;
\* the embedded signature is checked over a fresh context of its own hash
\* algorithm, fed in the same order; the revocation hash is fed the
\* preimage of the one key only.
C14_HashFeed ==
    /\ (vop = "VerifyKeySignature" /\ Len(vtrace) >= 2) =>
         /\ vhash.alg = vsig.Hash
         /\ vhash.data = Preimage(vkey) \o Preimage(vsigned)
                           \o (IF CanSign(vkey) THEN vsig.HashSuffix ELSE <<>>)
    /\ (vop = "VerifyKeySignature" /\ Len(vtrace) = 5) =>
         /\ vhash2.alg = vsig.EmbeddedSignature.Hash
         /\ vhash2.data = Preimage(vkey) \o Preimage(vsigned)
                            \o (IF CanSign(vsigned)
                                THEN vsig.EmbeddedSignature.HashSuffix ELSE <<>>)
    /\ (vop = "VerifyRevocationSignature" /\ vtrace # <<"hash">>) =>
         /\ vhash.alg = vsig.Hash
         /\ vhash.data = Preimage(vkey)
                           \o (IF CanSign(vkey) THEN vsig.HashSuffix ELSE <<>>)

\* A binding whose cross-signature was checked, under a hash algorithm
\* other than that of the outer signature, with distinct keys.
C14_Witness ==
    /\ vop = "VerifyKeySignature"
    /\ Len(vtrace) = 5
    /\ verr = "nil"
    /\ vhash2.alg # vhash.alg
    /\ Preimage(vkey) # Preimage(vsigned)
    /\ vhash2.data = Preimage(vkey) \o Preimage(vsigned) \o vsig.EmbeddedSignature.HashSuffix

\* C17: with an EdDSA key and a signature that passed the hash tag and
\* algorithm checks, the signature verified is r right-aligned in bytes
\* 0..31 and s right-aligned in bytes 32..63 when r and s have at most 32
\* bytes, and the outcome is a signature error, not a stop on a negative
\* slice index, when r or s has more than 32 bytes.
C17_EdDSASignature ==
    (vop = "VerifySignature" /\ vkey.PubKeyAlgo = PubKeyAlgoEdDSA /\ vtrace = CheckOrder) =>
        LET r == FieldBytes(vsig.SigR)
            s == FieldBytes(vsig.SigS)
        IN /\ (Len(r) <= 32 /\ Len(s) <= 32) =>
                /\ verr \in {"nil", "Signature"}
                /\ verr = "nil" <=>
                     ed25519Verify(vkey.PublicKey, DigestOfCall,
                                   Zeros(32 - Len(r)) \o r \o Zeros(32 - Len(s)) \o s)
           /\ (Len(r) > 32 \/ Len(s) > 32) => verr = "Signature"

(***************************************************************************)
(* Properties of KeyExpired                                                *)
(***************************************************************************)

\* The reference time of the last KeyExpired call minus the creation time
\* of the key, in whole seconds (64-bit two's complement, four limbs).
Elapsed ==
    LET t == vnow.sec
        c == vkey.CreationTime
        d4 == t[4] - c[4]
        d3 == t[3] - c[3] - (IF d4 < 0 THEN 1 ELSE 0)
        d2 == t[2] - c[2] - (IF d3 < 0 THEN 1 ELSE 0)
        d1 == t[1] - c[1] - (IF d2 < 0 THEN 1 ELSE 0)
    IN <<(d1 + 65536) % 65536, (d2 + 65536) % 65536,
         (d3 + 65536) % 65536, (d4 + 65536) % 65536>>

\* The key was created strictly after the reference time.
CreatedAfter == Elapsed[1] >= 32768

\* The reference time is exactly creation time plus the declared lifetime.
AtExpiry ==
    /\ vsig.KeyLifetimeSecs # <<>>
    /\ Elapsed = <<0, 0>> \o vsig.KeyLifetimeSecs
    /\ vnow.nsec = 0

\* Creation time plus the declared lifetime is strictly before the
\* reference time.
PastLifetime ==
    /\ vsig.KeyLifetimeSecs # <<>>
    /\ ~CreatedAfter
    /\ ~AtExpiry
    /\ \/ Elapsed[1] > 0
       \/ Elapsed[2] > 0
       \/ Elapsed[3] > vsig.KeyLifetimeSecs[1]
       \/ Elapsed[3] = vsig.KeyLifetimeSecs[1] /\ Elapsed[4] >= vsig.KeyLifetimeSecs[2]

\* C11: KeyExpired returns true exactly when the key was created strictly
\* after the reference time, or a lifetime is declared and creation time
\* plus lifetime is strictly before the reference time; without a declared
\* lifetime a key not created after the reference time is not expired, and
\* at exactly creation time plus lifetime it is not expired.
C11_KeyExpired ==
    vop = "KeyExpired" =>
        /\ vexpired <=> (CreatedAfter \/ PastLifetime)
        /\ (vsig.KeyLifetimeSecs = <<>> /\ ~CreatedAfter) => ~vexpired
        /\ AtExpiry => ~vexpired

\* A key with a non-zero lifetime checked at the instant of its expiry.
C11_Witness ==
    /\ vop = "KeyExpired"
    /\ AtExpiry
    /\ vsig.KeyLifetimeSecs = <<0, 10>>
    /\ ~vexpired

(***************************************************************************)
(* Properties of parseEdDSA                                                *)
(***************************************************************************)

\* The last call was a parse of a packet declaring the EdDSA algorithm that
\* got as far as reading the public point.
EdDSAPointRead ==
    /\ lastOp \in ParseOps
    /\ pk.PubKeyAlgo = PubKeyAlgoEdDSA
    /\ pk.p # NilField

\* C12: a parse of an EdDSA key succeeds only when the curve OID resolves
\* to an EdDSA curve and the point is the marker 0x40 followed by 32 bytes;
\* a point with the marker 0x04 or any other marker fails as unsupported,
\* so a successfully parsed EdDSA key holds a point of 0x40 and exactly 32
\* bytes.
C12_EdDSAPoint ==
    (lastOp \in ParseOps /\ pk.PubKeyAlgo = PubKeyAlgoEdDSA) =>
        /\ err = "nil" =>
             /\ FindByOid(pk.oid) # NoCurve
             /\ FindByOid(pk.oid).SigAlgorithm = "EdDSA"
             /\ Len(FieldBytes(pk.p)) = 1 + PublicKeySize
             /\ FieldBytes(pk.p)[1] = 64
        /\ (EdDSAPointRead /\ Len(FieldBytes(pk.p)) > 0 /\ FieldBytes(pk.p)[1] # 64) =>
             err = "Unsupported"

\* C16: parse returns an error, and does not stop on an index out of
\* range, for every EdDSA packet with a valid OID, one whose public point
\* has no bytes included.
C16_ParseReturns ==
    (lastOp \in ParseOps /\ pk.PubKeyAlgo = PubKeyAlgoEdDSA /\ pk.p # NilField) =>
        err \in {"nil", "Unsupported", "UnexpectedEOF"}

(***************************************************************************)
(* Properties of the SHA-1 digest                                          *)
(***************************************************************************)

\* C15: after Reset and any Write calls nx is within 0..63 and equals the
\* number of bytes written modulo 64; checkSum therefore ends with nx = 0
\* and does not panic; Sum leaves h, x, nx and len of the receiver as they
\* were, so that writing goes on after it (a later Sum is the checksum of
\* everything written).
C15_DigestBuffer ==
    /\ dig.nx >= 0
    /\ dig.nx < chunk
    /\ dig.len = Len(digData)
    /\ dig.nx = Len(digData) % chunk
    /\ digOp = "Sum" =>
         /\ digNx = 0
         /\ dig = digPrev
         /\ digSum = Sha1Sum(digData)

\* A Sum after three Write calls that went past a block boundary and left
\* more than 55 bytes in the buffer, so that the padding takes two blocks.
C15_Witness ==
    /\ digOp = "Sum"
    /\ digWrites = 3
    /\ dig.len > chunk
    /\ dig.nx > 55
    /\ digNx = 0
    /\ digSum = Sha1Sum(digData)

====
